---- MODULE Spec2Model ----
(***************************************************************************)
(* Song Battle: the Elo rating engine (package elo), the rows of the       *)
(* SQLite store it reads and writes (package store) and the reader that    *)
(* loads the rated tracks for matchmaking.                                 *)
(*                                                                         *)
(* The store is the pair (ratings, duels).  ProcessDuel is modelled at the *)
(* granularity of its SQL statements: the two GetRating reads and the      *)
(* computation, then UpdateRating(left), UpdateRating(right), CreateDuel,  *)
(* each of which the database may refuse.  setupNextDuel runs as a command *)
(* on its own goroutine, so its load of all tracks may fall between any    *)
(* two statements of a ProcessDuel that the Update loop is executing.      *)
(***************************************************************************)
EXTENDS Integers, Sequences, FiniteSets, TLC

(***************************************************************************)
(* Bounds of the model.                                                    *)
(***************************************************************************)
\* Track IDs a caller may pass; AUTOINCREMENT hands them out as 1, 2, ...
MaxTracks == 3
\* ProcessDuel calls explored after the initial state.
MaxCalls == 1
\* Loads of all tracks (GetAllTracksWithRatings) explored.
MaxLoads == 1
\* The largest limit a caller passes to GetEloRanking or GetRecentOpponents.
MaxLimit == 2

(***************************************************************************)
(* Program constants.                                                      *)
(***************************************************************************)
InitialElo == 1200
MaxK == 32
MidK == 24
MinK == 16
NewPlayerThreshold == 10
ExperiencedPlayerThreshold == 30

WinnerLeft == "left"
WinnerRight == "right"
WinnerDraw == "draw"
WinnerSkip == "skip"

\* The strings a caller may pass as result: the four constants and one
\* representative of every other string.
Results == {WinnerLeft, WinnerRight, WinnerDraw, WinnerSkip, "tie"}

TrackIDs == 1..MaxTracks

\* WinnerTrackID is a *int64; nil (SQL NULL) is written 0, which is no track ID.
NoWinner == 0

(***************************************************************************)
(* Floating point.  A float64 score is carried as an integer number of     *)
(* units of 1/384: 1.0 is 384, 0.5 is 192, 0.0 is 0.  An even value 2q is  *)
(* exactly q/192; an odd value 2q+1 stands for a float strictly between    *)
(* q/192 and (q+1)/192.  With k in {16, 24, 32} every point at which       *)
(* math.Round changes its result, (2m-1)/(2k), is a multiple of 1/192, so  *)
(* the rounded rating is the same for every float of one odd cell and the  *)
(* integer arithmetic below returns what the float64 arithmetic returns.   *)
(***************************************************************************)
Unit == 384
Half == 192

\* ExpectedCut[i] is the largest integer d with 1/(1 + 10^(d/400)) >= i/192,
\* that is floor(400 * log10((192 - i)/i)), for i = 1..191.
ExpectedCut ==
    <<
       912, 791, 719, 668, 629, 596, 568, 544, 523, 504, 486, 470,
       455, 441, 428, 416, 405, 394, 383, 373, 364, 355, 346, 338,
       329, 322, 314, 307, 299, 292, 286, 279, 273, 266, 260, 254,
       248, 243, 237, 231, 226, 221, 215, 210, 205, 200, 195, 190,
       186, 181, 176, 172, 167, 162, 158, 154, 149, 145, 141, 136,
       132, 128, 124, 120, 116, 112, 108, 104, 100, 96, 92, 88,
       84, 81, 77, 73, 69, 65, 62, 58, 54, 51, 47, 43,
       39, 36, 32, 29, 25, 21, 18, 14, 10, 7, 3, 0,
       -4, -8, -11, -15, -19, -22, -26, -30, -33, -37, -40, -44,
       -48, -52, -55, -59, -63, -66, -70, -74, -78, -82, -85, -89,
       -93, -97, -101, -105, -109, -113, -117, -121, -125, -129, -133, -137,
       -142, -146, -150, -155, -159, -163, -168, -173, -177, -182, -187, -191,
       -196, -201, -206, -211, -216, -222, -227, -232, -238, -244, -249, -255,
       -261, -267, -274, -280, -287, -293, -300, -308, -315, -323, -330, -339,
       -347, -356, -365, -374, -384, -395, -406, -417, -429, -442, -456, -471,
       -487, -505, -524, -545, -569, -597, -630, -669, -720, -792, -913
    >>

\* CalculateExpectedScore: 1.0 / (1.0 + math.Pow(10, float64(eloB-eloA)/400.0)).
\* Equal ratings give exactly 0.5; any other difference gives a float that is
\* no multiple of 1/192, in the cell that the cuts locate.
CalculateExpectedScore(eloA, eloB) ==
    LET d == eloB - eloA
        q == Cardinality({i \in 1..(Half - 1) : d <= ExpectedCut[i]})
    IN  IF d = 0 THEN Half ELSE 2 * q + 1

\* A rounding that sends halves to the even neighbour (math.RoundToEven).
RoundHalfToEven(x) ==
    LET lower == IF x >= 0 THEN x \div Unit ELSE -((Unit - 1 - x) \div Unit)
        rest == x - Unit * lower
    IN  IF rest < Half THEN lower
        ELSE IF rest > Half THEN lower + 1
        ELSE IF lower % 2 = 0 THEN lower ELSE lower + 1

\* math.Round of x/384: to the nearest integer, halves away from zero.
Round(x) ==
    IF x >= 0 THEN (x + Half) \div Unit ELSE -((Half - x) \div Unit)

\* A GetKFactor whose thresholds are inclusive (<= instead of <).
GetKFactorInclusive(totalBattles) ==
    IF totalBattles <= NewPlayerThreshold THEN MaxK
    ELSE IF totalBattles <= ExperiencedPlayerThreshold THEN MidK
    ELSE MinK

GetKFactor(totalBattles) ==
    IF totalBattles < NewPlayerThreshold THEN MaxK
    ELSE IF totalBattles < ExperiencedPlayerThreshold THEN MidK
    ELSE MinK

\* A CalculateNewElo with the difference taken the wrong way round.
CalculateNewEloSignError(oldElo, actualScore, expectedScore, kFactor) ==
    Round(Unit * oldElo + kFactor * (expectedScore - actualScore))

\* newElo := float64(oldElo) + float64(kFactor)*(actualScore-expectedScore)
CalculateNewElo(oldElo, actualScore, expectedScore, kFactor) ==
    Round(Unit * oldElo + kFactor * (actualScore - expectedScore))

(***************************************************************************)
(* models.Rating.  LastSeenAt is a wall-clock stamp that no decision of    *)
(* the engine reads; it is left out.                                       *)
(***************************************************************************)
Rating(id, elo, wins, losses, draws) ==
    [track_id |-> id, elo |-> elo, wins |-> wins, losses |-> losses, draws |-> draws]

\* The zero value of models.Rating (var rating models.Rating).
ZeroRating == Rating(0, 0, 0, 0, 0)

\* The row CreateTrack inserts beside a new track.
InitialRating(id) == Rating(id, InitialElo, 0, 0, 0)

GetTotalBattles(r) == r.wins + r.losses + r.draws

VARIABLES
    tracks,       \* the IDs of the rows of table tracks
    spotifyIDs,   \* column spotify_id of table tracks: id -> spotify_id (UNIQUE)
    ratings,      \* table ratings: track_id -> row (its domain: the rows present)
    duels,        \* table duels, in insertion order
    pc,           \* where the running ProcessDuel stands
    call,         \* the arguments of the running (or last) ProcessDuel
    leftRating,   \* ProcessDuel's local *models.Rating for the left track
    rightRating,  \* ProcessDuel's local *models.Rating for the right track
    ret,          \* what the last ProcessDuel returned
    before,       \* the store as it was when the running (or last) call began
    allTracks,    \* the slice the last GetAllTracksWithRatings returned
    calls,        \* ProcessDuel calls made so far
    loads,        \* loads of all tracks made so far
    locals,       \* ProcessDuel's leftK, rightK, newLeftElo, newRightElo
    reply,        \* the last read-only call: its name, arguments and return values
    m,            \* the Bubble Tea Model: currentView, focus, leftTrack, rightTrack
    cmds,         \* the commands (tea.Cmd) in flight, by name
    msgs,         \* the messages (tea.Msg) that commands are sending to Update
    shown,        \* how the displayed pair was loaded and the ProcessDuel calls made for it
    match         \* where a GetNextMatch run step by step stands, and its locals

vars == <<tracks, spotifyIDs, ratings, duels, pc, call, leftRating, rightRating, ret, before,
          allTracks, calls, loads, locals, reply, m, cmds, msgs, shown, match>>

(***************************************************************************)
(* The store (package store): the statements ProcessDuel and the reader    *)
(* issue, as functions of the tables.                                      *)
(***************************************************************************)

\* A GetRating whose query reports no error when it selects no row.
GetRatingErrNever(store, trackID) == "nil"

\* GetRating's error: QueryRow(...).Scan fails with sql.ErrNoRows when the
\* WHERE clause selects no row.
GetRatingErr(store, trackID) ==
    IF trackID \in DOMAIN store THEN "nil" ELSE "sql.ErrNoRows"

\* GetRating's *models.Rating (nil, written as the zero value, on an error).
GetRating(store, trackID) ==
    IF trackID \in DOMAIN store THEN store[trackID] ELSE ZeroRating

\* UPDATE ratings SET elo, wins, losses, draws WHERE track_id = ?: a statement
\* that matches no row changes nothing and is no error.
UpdateRating(store, rating) ==
    IF rating.track_id \in DOMAIN store
    THEN [store EXCEPT ![rating.track_id] = rating]
    ELSE store

\* INSERT INTO duels (left_track_id, right_track_id, winner_track_id, created_at).
CreateDuel(log, leftTrackID, rightTrackID, winnerID) ==
    Append(log, [left_track_id |-> leftTrackID,
                 right_track_id |-> rightTrackID,
                 winner_track_id |-> winnerID])

\* SELECT ... FROM tracks t JOIN ratings r ON t.id = r.track_id ORDER BY r.elo
\* DESC: every order of the joined rows that is descending in elo.  SQL fixes
\* no order among rows of equal elo.
OrderedByEloDesc(trackRows, store) ==
    LET ids == trackRows \cap DOMAIN store
        n == Cardinality(ids)
    IN  {s \in [1..n -> {store[i] : i \in ids}] :
            /\ \A i, j \in 1..n : i /= j => s[i] /= s[j]
            /\ \A i, j \in 1..n : i < j => s[i].elo >= s[j].elo}

(***************************************************************************)
(* ProcessDuel (package elo).                                              *)
(***************************************************************************)

\* A switch whose skip case falls into the draw case.
SwitchResultSkipAsDraw(result) ==
    CASE result = WinnerLeft -> [kind |-> "scores", leftScore |-> Unit, rightScore |-> 0]
      [] result = WinnerRight -> [kind |-> "scores", leftScore |-> 0, rightScore |-> Unit]
      [] result \in {WinnerDraw, WinnerSkip} ->
            [kind |-> "scores", leftScore |-> Half, rightScore |-> Half]
      [] OTHER -> [kind |-> "invalid", leftScore |-> 0, rightScore |-> 0]

\* The switch on result: the two actual scores, or a return.
SwitchResult(result) ==
    CASE result = WinnerLeft -> [kind |-> "scores", leftScore |-> Unit, rightScore |-> 0]
      [] result = WinnerRight -> [kind |-> "scores", leftScore |-> 0, rightScore |-> Unit]
      [] result = WinnerDraw -> [kind |-> "scores", leftScore |-> Half, rightScore |-> Half]
      [] result = WinnerSkip -> [kind |-> "skip", leftScore |-> 0, rightScore |-> 0]
      [] OTHER -> [kind |-> "invalid", leftScore |-> 0, rightScore |-> 0]

\* Counters that forget the loser's Losses++.
CountResultNoLoss(rating, won, lost, drew) ==
    [rating EXCEPT !.wins = @ + (IF won THEN 1 ELSE 0),
                   !.draws = @ + (IF drew THEN 1 ELSE 0)]

\* The win/loss/draw counters of one side: won, lost or drew.
CountResult(rating, won, lost, drew) ==
    [rating EXCEPT !.wins = @ + (IF won THEN 1 ELSE 0),
                   !.losses = @ + (IF lost THEN 1 ELSE 0),
                   !.draws = @ + (IF drew THEN 1 ELSE 0)]

\* Lines 83-93: the expected scores, the K factors and the new ratings, all
\* computed from the two structs as read, before either is assigned.
DuelLocals(left, right, result) ==
    LET s == SwitchResult(result)
        leftExpected == CalculateExpectedScore(left.elo, right.elo)
        rightExpected == CalculateExpectedScore(right.elo, left.elo)
        leftK == GetKFactor(GetTotalBattles(left))
        rightK == GetKFactor(GetTotalBattles(right))
    IN  [leftK |-> leftK,
         rightK |-> rightK,
         newLeftElo |-> CalculateNewElo(left.elo, s.leftScore, leftExpected, leftK),
         newRightElo |-> CalculateNewElo(right.elo, s.rightScore, rightExpected, rightK)]

\* The locals of a call that returned before line 83.
NoLocals == [leftK |-> 0, rightK |-> 0, newLeftElo |-> 0, newRightElo |-> 0]

\* Lines 95-111: the two structs as ProcessDuel holds them before it saves.
UpdatedRatings(left, right, result) ==
    LET c == DuelLocals(left, right, result)
    IN  [left |-> CountResult([left EXCEPT !.elo = c.newLeftElo],
                              result = WinnerLeft, result = WinnerRight,
                              result = WinnerDraw),
         right |-> CountResult([right EXCEPT !.elo = c.newRightElo],
                               result = WinnerRight, result = WinnerLeft,
                               result = WinnerDraw)]

\* Lines 122-127: the winner recorded with the duel.
WinnerID(leftTrackID, rightTrackID, result) ==
    IF result = WinnerLeft THEN leftTrackID
    ELSE IF result = WinnerRight THEN rightTrackID
    ELSE NoWinner

\* Lines 55-111: the two reads, the switch and the computation.  An error of
\* either read, and a result outside the switch, return at once; a skip goes
\* straight to recording the duel.
ProcessDuel(leftTrackID, rightTrackID, result) ==
    /\ pc = "idle"
    /\ calls < MaxCalls
    /\ calls' = calls + 1
    /\ call' = [left |-> leftTrackID, right |-> rightTrackID, result |-> result]
    /\ before' = [ratings |-> ratings, duels |-> duels]
    /\ LET l == GetRating(ratings, leftTrackID)
           r == GetRating(ratings, rightTrackID)
           s == SwitchResult(result)
       IN  IF GetRatingErr(ratings, leftTrackID) /= "nil"
           THEN /\ ret' = GetRatingErr(ratings, leftTrackID)
                /\ leftRating' = ZeroRating
                /\ rightRating' = ZeroRating
                /\ locals' = NoLocals
                /\ pc' = "idle"
           ELSE IF GetRatingErr(ratings, rightTrackID) /= "nil"
           THEN /\ ret' = GetRatingErr(ratings, rightTrackID)
                /\ leftRating' = l
                /\ rightRating' = ZeroRating
                /\ locals' = NoLocals
                /\ pc' = "idle"
           ELSE IF s.kind = "skip"
           THEN /\ ret' = "running"
                /\ leftRating' = l
                /\ rightRating' = r
                /\ locals' = NoLocals
                /\ pc' = "createDuel"
           ELSE IF s.kind = "invalid"
           THEN /\ ret' = "nil"
                /\ leftRating' = l
                /\ rightRating' = r
                /\ locals' = NoLocals
                /\ pc' = "idle"
           ELSE /\ ret' = "running"
                /\ leftRating' = UpdatedRatings(l, r, result).left
                /\ rightRating' = UpdatedRatings(l, r, result).right
                /\ locals' = DuelLocals(l, r, result)
                /\ pc' = "updateLeft"
    /\ UNCHANGED <<tracks, spotifyIDs, ratings, duels, allTracks, loads, reply,
                   m, cmds, msgs, shown, match>>

\* Line 114: es.db.UpdateRating(leftRating).
SaveLeft(ok) ==
    /\ pc = "updateLeft"
    /\ IF ok
       THEN /\ ratings' = UpdateRating(ratings, leftRating)
            /\ pc' = "updateRight"
            /\ ret' = ret
       ELSE /\ ratings' = ratings
            /\ pc' = "idle"
            /\ ret' = "error"
    /\ UNCHANGED <<tracks, spotifyIDs, duels, call, leftRating, rightRating, before, allTracks, calls,
                   loads, locals, reply,
                   m, cmds, msgs, shown, match>>

\* Line 117: es.db.UpdateRating(rightRating).
SaveRight(ok) ==
    /\ pc = "updateRight"
    /\ IF ok
       THEN /\ ratings' = UpdateRating(ratings, rightRating)
            /\ pc' = "createDuel"
            /\ ret' = ret
       ELSE /\ ratings' = ratings
            /\ pc' = "idle"
            /\ ret' = "error"
    /\ UNCHANGED <<tracks, spotifyIDs, duels, call, leftRating, rightRating, before, allTracks, calls,
                   loads, locals, reply,
                   m, cmds, msgs, shown, match>>

\* recordDuelWithoutEloChange: es.db.CreateDuel(duel), whose error is returned.
RecordDuel(ok) ==
    /\ pc = "createDuel"
    /\ IF ok
       THEN /\ duels' = CreateDuel(duels, call.left, call.right,
                                   WinnerID(call.left, call.right, call.result))
            /\ ret' = "nil"
       ELSE /\ duels' = duels
            /\ ret' = "error"
    /\ pc' = "idle"
    /\ UNCHANGED <<tracks, spotifyIDs, ratings, call, leftRating, rightRating, before, allTracks, calls,
                   loads, locals, reply,
                   m, cmds, msgs, shown, match>>

(***************************************************************************)
(* SimulateDuel (package elo): the two reads, its own switch on result and *)
(* the same arithmetic, returned as two EloChange values and an error.  A  *)
(* nil slice is written as the empty sequence.                             *)
(***************************************************************************)
EloChange(trackID, oldElo, newElo, change, result) ==
    [TrackID |-> trackID, OldElo |-> oldElo, NewElo |-> newElo, Change |-> change,
     Result |-> result]

SimulateDuel(store, leftTrackID, rightTrackID, result) ==
    LET l == GetRating(store, leftTrackID)
        r == GetRating(store, rightTrackID)
        leftScore == IF result = WinnerLeft THEN Unit
                     ELSE IF result = WinnerRight THEN 0 ELSE Half
        rightScore == IF result = WinnerLeft THEN 0
                      ELSE IF result = WinnerRight THEN Unit ELSE Half
        leftExpected == CalculateExpectedScore(l.elo, r.elo)
        rightExpected == CalculateExpectedScore(r.elo, l.elo)
        leftK == GetKFactor(GetTotalBattles(l))
        rightK == GetKFactor(GetTotalBattles(r))
        newLeftElo == CalculateNewElo(l.elo, leftScore, leftExpected, leftK)
        newRightElo == CalculateNewElo(r.elo, rightScore, rightExpected, rightK)
    IN  IF GetRatingErr(store, leftTrackID) /= "nil"
        THEN [changes |-> <<>>, err |-> GetRatingErr(store, leftTrackID)]
        ELSE IF GetRatingErr(store, rightTrackID) /= "nil"
        THEN [changes |-> <<>>, err |-> GetRatingErr(store, rightTrackID)]
        ELSE IF result = WinnerSkip
        THEN [changes |-> <<EloChange(leftTrackID, l.elo, l.elo, 0, result),
                            EloChange(rightTrackID, r.elo, r.elo, 0, result)>>,
              err |-> "nil"]
        ELSE IF result \notin {WinnerLeft, WinnerRight, WinnerDraw}
        THEN [changes |-> <<>>, err |-> "nil"]
        ELSE [changes |-> <<EloChange(leftTrackID, l.elo, newLeftElo,
                                      newLeftElo - l.elo, result),
                            EloChange(rightTrackID, r.elo, newRightElo,
                                      newRightElo - r.elo, result)>>,
              err |-> "nil"]

(***************************************************************************)
(* The store's other queries.                                              *)
(***************************************************************************)

\* GetTopTracks: the same SELECT as GetAllTracksWithRatings with LIMIT ?.
\* SQLite reads a negative LIMIT as no limit.
\* A GetTopTracks whose ORDER BY lacks DESC.
GetTopTracksAscending(trackRows, store, limit) ==
    LET n == Cardinality(trackRows \cap DOMAIN store)
    IN  {[i \in 1..(IF limit < 0 \/ limit > n THEN n ELSE limit) |-> s[n + 1 - i]] :
            s \in OrderedByEloDesc(trackRows, store)}

GetTopTracks(trackRows, store, limit) ==
    {SubSeq(s, 1, IF limit < 0 \/ limit > Len(s) THEN Len(s) ELSE limit) :
        s \in OrderedByEloDesc(trackRows, store)}

\* GetDuelHistory: SELECT ... FROM duels ORDER BY created_at DESC LIMIT ?.
\* created_at is the time.Now() of the insert, so the order is the reverse
\* of the insertion order.
GetDuelHistory(log, limit) ==
    LET n == IF limit < 0 \/ limit > Len(log) THEN Len(log) ELSE limit
    IN  [i \in 1..n |-> log[Len(log) + 1 - i]]

(***************************************************************************)
(* The matchmaker (styles.go).  A *models.TrackWithRating is written as    *)
(* the joined row's rating, whose track_id is the track's ID; a nil        *)
(* pointer is ZeroRating.  Every call of mm.rand is a choice: the          *)
(* functions that draw return the set of the results they can return.      *)
(* The slice of all tracks, tracks in the source, is written loaded.       *)
(***************************************************************************)
EloRange == 100
MinBattlesForBalance == 5

\* int(^uint(0) >> 1); any value above every rating difference acts alike.
MaxInt == 2147483647

abs(x) == IF x < 0 THEN -x ELSE x

IsUnderplayed(track) == GetTotalBattles(track) < MinBattlesForBalance
IsExperienced(track) == GetTotalBattles(track) >= MinBattlesForBalance

\* A shouldExplore that forces exploration from one half on (>= 0.5).
shouldExploreFromHalf(loaded, draw) ==
    LET underplayedTracks == Len(SelectSeq(loaded, IsUnderplayed))
    IN  IF 2 * underplayedTracks >= Len(loaded) THEN TRUE ELSE draw

\* shouldExplore; draw is mm.rand.Float64() < ExplorationRate.
shouldExplore(loaded, draw) ==
    LET underplayedTracks == Len(SelectSeq(loaded, IsUnderplayed))
    IN  IF 2 * underplayedTracks > Len(loaded) THEN TRUE ELSE draw

\* One loop of findBestOpponent over candidates[i..]: the first loop takes a
\* candidate only within EloRange (inRange), the second takes any.
RECURSIVE ClosestCandidate(_, _, _, _, _, _)
ClosestCandidate(target, candidates, i, bestOpponent, bestDifference, inRange) ==
    IF i > Len(candidates)
    THEN [bestOpponent |-> bestOpponent, bestDifference |-> bestDifference]
    ELSE LET candidate == candidates[i]
             eloDiff == abs(candidate.elo - target.elo)
         IN  IF /\ candidate.track_id /= target.track_id
                /\ (inRange => eloDiff <= EloRange)
                /\ eloDiff < bestDifference
             THEN ClosestCandidate(target, candidates, i + 1, candidate, eloDiff, inRange)
             ELSE ClosestCandidate(target, candidates, i + 1, bestOpponent,
                                   bestDifference, inRange)

\* A findBestOpponent whose first loop lacks `eloDiff < bestDifference`: it
\* keeps the last candidate within EloRange.
findBestOpponentLastInRange(target, candidates) ==
    LET within == {i \in 1..Len(candidates) :
                      /\ candidates[i].track_id /= target.track_id
                      /\ abs(candidates[i].elo - target.elo) <= EloRange}
    IN  IF within /= {}
        THEN candidates[CHOOSE i \in within : \A j \in within : j <= i]
        ELSE ClosestCandidate(target, candidates, 1, ZeroRating, MaxInt, FALSE).bestOpponent

\* A findBestOpponent without its second loop: no candidate within EloRange,
\* no opponent.
findBestOpponentInRangeOnly(target, candidates) ==
    ClosestCandidate(target, candidates, 1, ZeroRating, MaxInt, TRUE).bestOpponent

findBestOpponent(target, candidates) ==
    LET first == ClosestCandidate(target, candidates, 1, ZeroRating, MaxInt, TRUE)
    IN  IF first.bestOpponent /= ZeroRating
        THEN first.bestOpponent
        ELSE ClosestCandidate(target, candidates, 1, ZeroRating,
                              first.bestDifference, FALSE).bestOpponent

\* randomMatch: two indices, the right one drawn again until it differs.
randomMatch(loaded) ==
    IF Len(loaded) < 2
    THEN {<<ZeroRating, ZeroRating>>}
    ELSE {<<loaded[idx[1]], loaded[idx[2]]>> :
            idx \in {p \in (1..Len(loaded)) \X (1..Len(loaded)) : p[1] /= p[2]}}

balancedMatch(loaded) ==
    LET experienced == SelectSeq(loaded, IsExperienced)
    IN  IF Len(experienced) < 2
        THEN randomMatch(loaded)
        ELSE {<<experienced[leftIdx], findBestOpponent(experienced[leftIdx], experienced)>> :
                leftIdx \in 1..Len(experienced)}

\* Lines 453-458: the tracks whose slice index i (from 0) is not the left
\* track's ID, in slice order.
allOthers(loaded, leftTrack) ==
    LET keep == {p \in 1..Len(loaded) : p - 1 /= leftTrack.track_id}
        at(k) == CHOOSE p \in keep : Cardinality({q \in keep : q < p}) = k - 1
    IN  [k \in 1..Cardinality(keep) |-> loaded[at(k)]]

explorationMatch(loaded) ==
    LET underplayed == SelectSeq(loaded, IsUnderplayed)
    IN  IF Len(underplayed) = 0
        THEN balancedMatch(loaded)
        ELSE UNION {IF Len(allOthers(loaded, underplayed[leftIdx])) = 0
                    THEN {<<ZeroRating, ZeroRating>>}
                    ELSE {<<underplayed[leftIdx],
                            allOthers(loaded, underplayed[leftIdx])[rightIdx]>> :
                            rightIdx \in 1..Len(allOthers(loaded, underplayed[leftIdx]))} :
                    leftIdx \in 1..Len(underplayed)}

\* GetNextMatch after its load and its length test: the pairs it can return
\* for the slice loaded and the draw of shouldExplore.
NextMatches(loaded, draw) ==
    LET first == IF shouldExplore(loaded, draw)
                 THEN explorationMatch(loaded)
                 ELSE balancedMatch(loaded)
    IN  UNION {IF pair[1] = ZeroRating \/ pair[2] = ZeroRating
               THEN randomMatch(loaded)
               ELSE {pair} : pair \in first}

\* A GetMatchQuality that looks at the battles of the left track alone.
GetMatchQualityLeftOnly(left, right) ==
    LET eloDiff == abs(left.elo - right.elo)
    IN  IF GetTotalBattles(left) < MinBattlesForBalance
        THEN "Exploration"
        ELSE IF eloDiff <= 25 THEN "Parfait"
        ELSE IF eloDiff <= 50 THEN "Excellent"
        ELSE IF eloDiff <= EloRange THEN "Bon"
        ELSE IF eloDiff <= 200 THEN "Moyen"
        ELSE "Desequilibre"

\* The labels are "Parfait", "Excellent", "Bon", "Moyen" and, written here
\* without its accents, "Desequilibre".
GetMatchQuality(left, right) ==
    LET eloDiff == abs(left.elo - right.elo)
    IN  IF GetTotalBattles(left) < MinBattlesForBalance
           \/ GetTotalBattles(right) < MinBattlesForBalance
        THEN "Exploration"
        ELSE IF eloDiff <= 25 THEN "Parfait"
        ELSE IF eloDiff <= 50 THEN "Excellent"
        ELSE IF eloDiff <= EloRange THEN "Bon"
        ELSE IF eloDiff <= 200 THEN "Moyen"
        ELSE "Desequilibre"

\* The loop of GetRecentOpponents over duelRows[i..].
RECURSIVE ScanDuels(_, _, _, _, _)
ScanDuels(duelRows, i, trackID, limit, opponents) ==
    IF i > Len(duelRows)
    THEN opponents
    ELSE LET duel == duelRows[i]
             opponentID == IF duel.left_track_id = trackID
                           THEN duel.right_track_id
                           ELSE duel.left_track_id
             seen == {opponents[k] : k \in 1..Len(opponents)}
         IN  IF duel.left_track_id /= trackID /\ duel.right_track_id /= trackID
             THEN ScanDuels(duelRows, i + 1, trackID, limit, opponents)
             ELSE IF opponentID \in seen
             THEN ScanDuels(duelRows, i + 1, trackID, limit, opponents)
             ELSE IF Len(opponents) + 1 >= limit
             THEN Append(opponents, opponentID)
             ELSE ScanDuels(duelRows, i + 1, trackID, limit,
                            Append(opponents, opponentID))

GetRecentOpponents(log, trackID, limit) ==
    ScanDuels(GetDuelHistory(log, limit * 2), 1, trackID, limit, <<>>)

AvoidRecentOpponent(log, target, candidates) ==
    LET recentOpponents == GetRecentOpponents(log, target.track_id, 3)
        recentMap == {recentOpponents[k] : k \in 1..Len(recentOpponents)}
        Kept(candidate) == /\ candidate.track_id /= target.track_id
                           /\ candidate.track_id \notin recentMap
        filtered == SelectSeq(candidates, Kept)
    IN  IF Len(filtered) = 0
        THEN findBestOpponent(target, candidates)
        ELSE findBestOpponent(target, filtered)

\* GetEloStats of the slice that GetAllTracksWithRatings returned.
RECURSIVE TotalElo(_, _)
TotalElo(loaded, i) ==
    IF i > Len(loaded) THEN 0 ELSE loaded[i].elo + TotalElo(loaded, i + 1)

GetEloStats(loaded) ==
    IF Len(loaded) = 0
    THEN [total_tracks |-> 0, average_elo |-> 0, min_elo |-> 0, max_elo |-> 0]
    ELSE [total_tracks |-> Len(loaded),
          average_elo |-> TotalElo(loaded, 1) \div Len(loaded),
          min_elo |-> CHOOSE elo \in {loaded[i].elo : i \in 1..Len(loaded)} :
                         \A i \in 1..Len(loaded) : elo <= loaded[i].elo,
          max_elo |-> CHOOSE elo \in {loaded[i].elo : i \in 1..Len(loaded)} :
                         \A i \in 1..Len(loaded) : elo >= loaded[i].elo]

(***************************************************************************)
(* The other users of the store.                                           *)
(***************************************************************************)

\* GetAllTracksWithRatings, as setupNextDuel's GetNextMatch calls it: one
\* SELECT, which sees the tables as they are at that moment.
LoadAllTracks ==
    /\ loads < MaxLoads
    /\ loads' = loads + 1
    /\ \E s \in OrderedByEloDesc(tracks, ratings) : allTracks' = s
    /\ UNCHANGED <<tracks, spotifyIDs, ratings, duels, pc, call, leftRating, rightRating, ret,
                   before, calls, locals, reply,
                   m, cmds, msgs, shown, match>>

\* Column spotify_id with the row of a new track.
WithSpotifyID(column, trackID, spotifyID) ==
    [i \in DOMAIN column \cup {trackID} |-> IF i = trackID THEN spotifyID ELSE column[i]]

\* The Spotify ID of a track that is not stored yet: the IDs are numbered,
\* this is the first number that no row carries.
NewSpotifyID(column) ==
    CHOOSE spotifyID \in 1..(Cardinality(DOMAIN column) + 1) :
        /\ \A i \in DOMAIN column : column[i] /= spotifyID
        /\ \A other \in 1..(spotifyID - 1) : \E i \in DOMAIN column : column[i] = other

\* A CreateTrack without the transaction: when the second INSERT fails the
\* row of table tracks stays.
CreateTrackNoRollback(ok) ==
    /\ pc = "idle"
    /\ Cardinality(tracks) < MaxTracks
    /\ LET trackID == Cardinality(tracks) + 1
       IN  /\ tracks' = tracks \cup {trackID}
           /\ spotifyIDs' = WithSpotifyID(spotifyIDs, trackID, NewSpotifyID(spotifyIDs))
           /\ ratings' = IF ok
                         THEN [i \in DOMAIN ratings \cup {trackID} |->
                                 IF i = trackID THEN InitialRating(trackID)
                                 ELSE ratings[i]]
                         ELSE ratings
    /\ UNCHANGED <<duels, pc, call, leftRating, rightRating, ret, before, allTracks,
                   calls, loads, locals, reply,
                   m, cmds, msgs, shown, match>>

\* CreateTrack: one transaction inserts the track and its rating row; an error
\* of either INSERT rolls both back.  main imports before it starts the TUI,
\* so no ProcessDuel is running when a track is created.
CreateTrack(ok) ==
    /\ pc = "idle"
    /\ Cardinality(tracks) < MaxTracks
    /\ LET trackID == Cardinality(tracks) + 1
       IN  IF ok
           THEN /\ tracks' = tracks \cup {trackID}
                /\ spotifyIDs' = WithSpotifyID(spotifyIDs, trackID, NewSpotifyID(spotifyIDs))
                /\ ratings' = [i \in DOMAIN ratings \cup {trackID} |->
                                  IF i = trackID THEN InitialRating(trackID)
                                  ELSE ratings[i]]
           ELSE /\ tracks' = tracks
                /\ spotifyIDs' = spotifyIDs
                /\ ratings' = ratings
    /\ UNCHANGED <<duels, pc, call, leftRating, rightRating, ret, before, allTracks,
                   calls, loads, locals, reply,
                   m, cmds, msgs, shown, match>>

\* No read-only call has been made yet.
NoReply == [op |-> "none"]

(***************************************************************************)
(* The read-only calls.  GetNextMatch (setupNextDuel) and GetEloRanking    *)
(* (exportPlaylist) run as commands on goroutines of their own, at any     *)
(* point of a ProcessDuel; the others have no caller but the Update loop,  *)
(* which runs them between two ProcessDuel calls.  A SELECT is taken to    *)
(* succeed; rows.Scan of the columns always does.                          *)
(***************************************************************************)
Limits == (-1)..MaxLimit

\* The limits passed to GetRecentOpponents: numbers of opponents.
OpponentLimits == 0..MaxLimit

\* A GetNextMatch whose length test is len(allTracks) < 1.
CallGetNextMatchOffByOne(draw) ==
    /\ \E loaded \in OrderedByEloDesc(tracks, ratings) :
          IF Len(loaded) < 1
          THEN reply' = [op |-> "GetNextMatch", draw |-> draw, allTracks |-> loaded,
                         shouldExplore |-> FALSE,
                         left |-> ZeroRating, right |-> ZeroRating,
                         err |-> "besoin d'au moins 2 tracks pour un duel"]
          ELSE \E pair \in NextMatches(loaded, draw) :
                   reply' = [op |-> "GetNextMatch", draw |-> draw, allTracks |-> loaded,
                             shouldExplore |-> shouldExplore(loaded, draw),
                             left |-> pair[1], right |-> pair[2], err |-> "nil"]
    /\ UNCHANGED <<tracks, spotifyIDs, ratings, duels, pc, call, leftRating, rightRating, ret,
                   before, allTracks, calls, loads, locals,
                   m, cmds, msgs, shown, match>>

\* GetNextMatch: the load, the length test, the match, the fallback.  The
\* reply keeps the slice loaded (the local allTracks) and the local
\* shouldExplore beside the three values returned.
CallGetNextMatch(draw) ==
    /\ \E loaded \in OrderedByEloDesc(tracks, ratings) :
          IF Len(loaded) < 2
          THEN reply' = [op |-> "GetNextMatch", draw |-> draw, allTracks |-> loaded,
                         shouldExplore |-> FALSE,
                         left |-> ZeroRating, right |-> ZeroRating,
                         err |-> "besoin d'au moins 2 tracks pour un duel"]
          ELSE \E pair \in NextMatches(loaded, draw) :
                   reply' = [op |-> "GetNextMatch", draw |-> draw, allTracks |-> loaded,
                             shouldExplore |-> shouldExplore(loaded, draw),
                             left |-> pair[1], right |-> pair[2], err |-> "nil"]
    /\ UNCHANGED <<tracks, spotifyIDs, ratings, duels, pc, call, leftRating, rightRating, ret,
                   before, allTracks, calls, loads, locals,
                   m, cmds, msgs, shown, match>>

\* GetEloRanking(limit): return es.db.GetTopTracks(limit).  The reply keeps
\* the joined rows that the SELECT ranked.
CallGetEloRanking(limit) ==
    /\ \E top \in GetTopTracks(tracks, ratings, limit) :
          reply' = [op |-> "GetEloRanking", limit |-> limit, value |-> top, err |-> "nil",
                    joined |-> {ratings[id] : id \in tracks \cap DOMAIN ratings}]
    /\ UNCHANGED <<tracks, spotifyIDs, ratings, duels, pc, call, leftRating, rightRating, ret,
                   before, allTracks, calls, loads, locals,
                   m, cmds, msgs, shown, match>>

\* A SimulateDuel that saves the ratings it projects.
CallSimulateDuelPersisting(leftTrackID, rightTrackID, result) ==
    /\ pc = "idle"
    /\ LET sim == SimulateDuel(ratings, leftTrackID, rightTrackID, result)
       IN  /\ reply' = [op |-> "SimulateDuel", leftTrackID |-> leftTrackID,
                        rightTrackID |-> rightTrackID, result |-> result,
                        changes |-> sim.changes, err |-> sim.err]
           /\ ratings' = IF Len(sim.changes) = 2
                         THEN [id \in DOMAIN ratings |->
                                 IF id = rightTrackID
                                 THEN [ratings[id] EXCEPT !.elo = sim.changes[2].NewElo]
                                 ELSE IF id = leftTrackID
                                 THEN [ratings[id] EXCEPT !.elo = sim.changes[1].NewElo]
                                 ELSE ratings[id]]
                         ELSE ratings
    /\ UNCHANGED <<tracks, spotifyIDs, duels, pc, call, leftRating, rightRating, ret,
                   before, allTracks, calls, loads, locals,
                   m, cmds, msgs, shown, match>>

CallSimulateDuel(leftTrackID, rightTrackID, result) ==
    /\ pc = "idle"
    /\ reply' = [op |-> "SimulateDuel", leftTrackID |-> leftTrackID,
                 rightTrackID |-> rightTrackID, result |-> result,
                 changes |-> SimulateDuel(ratings, leftTrackID, rightTrackID, result).changes,
                 err |-> SimulateDuel(ratings, leftTrackID, rightTrackID, result).err]
    /\ UNCHANGED <<tracks, spotifyIDs, ratings, duels, pc, call, leftRating, rightRating, ret,
                   before, allTracks, calls, loads, locals,
                   m, cmds, msgs, shown, match>>

\* GetMatchQuality of two rows of the store.
CallGetMatchQuality(leftTrackID, rightTrackID) ==
    /\ pc = "idle"
    /\ leftTrackID \in tracks \cap DOMAIN ratings
    /\ rightTrackID \in tracks \cap DOMAIN ratings
    /\ reply' = [op |-> "GetMatchQuality", left |-> ratings[leftTrackID],
                 right |-> ratings[rightTrackID],
                 value |-> GetMatchQuality(ratings[leftTrackID], ratings[rightTrackID])]
    /\ UNCHANGED <<tracks, spotifyIDs, ratings, duels, pc, call, leftRating, rightRating, ret,
                   before, allTracks, calls, loads, locals,
                   m, cmds, msgs, shown, match>>

\* The reply keeps the table duels that GetDuelHistory read.
CallGetRecentOpponents(trackID, limit) ==
    /\ pc = "idle"
    /\ reply' = [op |-> "GetRecentOpponents", trackID |-> trackID, limit |-> limit,
                 value |-> GetRecentOpponents(duels, trackID, limit), err |-> "nil",
                 history |-> duels]
    /\ UNCHANGED <<tracks, spotifyIDs, ratings, duels, pc, call, leftRating, rightRating, ret,
                   before, allTracks, calls, loads, locals,
                   m, cmds, msgs, shown, match>>

\* AvoidRecentOpponent of a row of the store, the candidates being a load of
\* all tracks.  The reply keeps the table duels that GetDuelHistory read.
CallAvoidRecentOpponent(targetID) ==
    /\ pc = "idle"
    /\ targetID \in tracks \cap DOMAIN ratings
    /\ \E candidates \in OrderedByEloDesc(tracks, ratings) :
          reply' = [op |-> "AvoidRecentOpponent", target |-> ratings[targetID],
                    candidates |-> candidates,
                    value |-> AvoidRecentOpponent(duels, ratings[targetID], candidates),
                    history |-> duels]
    /\ UNCHANGED <<tracks, spotifyIDs, ratings, duels, pc, call, leftRating, rightRating, ret,
                   before, allTracks, calls, loads, locals,
                   m, cmds, msgs, shown, match>>

CallGetEloStats ==
    /\ pc = "idle"
    /\ \E loaded \in OrderedByEloDesc(tracks, ratings) :
          reply' = [op |-> "GetEloStats", value |-> GetEloStats(loaded), err |-> "nil"]
    /\ UNCHANGED <<tracks, spotifyIDs, ratings, duels, pc, call, leftRating, rightRating, ret,
                   before, allTracks, calls, loads, locals,
                   m, cmds, msgs, shown, match>>

\* Any of the read-only calls.
Queries ==
    \/ \E draw \in BOOLEAN : CallGetNextMatch(draw)
    \/ \E limit \in Limits : CallGetEloRanking(limit)
    \/ \E l, r \in TrackIDs, result \in Results : CallSimulateDuel(l, r, result)
    \/ \E l, r \in TrackIDs : CallGetMatchQuality(l, r)
    \/ \E trackID \in TrackIDs, limit \in OpponentLimits : CallGetRecentOpponents(trackID, limit)
    \/ \E targetID \in TrackIDs : CallAvoidRecentOpponent(targetID)
    \/ CallGetEloStats

(***************************************************************************)
(* The exported pure functions of package elo, called directly.            *)
(***************************************************************************)

\* The arguments a caller passes to CalculateNewElo: ratings around the
\* initial one, the three actual scores, the expected scores 0/64, 1/64, ...,
\* 64/64 (floats that float64 holds exactly) and the three K factors.
OldElos == {InitialElo - 1, InitialElo, InitialElo + 1}
ActualScores == {0, Half, Unit}
ExpectedScores == {(Unit \div 64) * i : i \in 0..64}
KFactors == {MinK, MidK, MaxK}

\* A direct call of CalculateNewElo(oldElo, actualScore, expectedScore, kFactor).
CallCalculateNewElo(oldElo, actualScore, expectedScore, kFactor) ==
    /\ reply' = [op |-> "CalculateNewElo",
                 oldElo |-> oldElo,
                 actualScore |-> actualScore,
                 expectedScore |-> expectedScore,
                 kFactor |-> kFactor,
                 value |-> CalculateNewElo(oldElo, actualScore, expectedScore, kFactor)]
    /\ UNCHANGED <<tracks, spotifyIDs, ratings, duels, pc, call, leftRating, rightRating, ret,
                   before, allTracks, calls, loads, locals,
                   m, cmds, msgs, shown, match>>

(***************************************************************************)
(* The terminal interface (main.go).  Update runs on one goroutine and     *)
(* handles one message at a time; a handler that calls ProcessDuel runs it *)
(* to its return before the next message is taken.  Every command runs on  *)
(* a goroutine of its own and sends its message to Update when it is done; *)
(* the sends of different commands arrive in any order.  A                 *)
(* *models.TrackWithRating is the joined row as it was loaded.             *)
(***************************************************************************)
\* ProcessDuel calls the interface makes (key presses of enter and s).
MaxVotes == 2

ViewDuel == "ViewDuel"
ViewLoading == "ViewLoading"
ViewError == "ViewError"
FocusLeft == "FocusLeft"
FocusRight == "FocusRight"

\* NewModelWithOptions: the fields of Model that the handlers below read.
NewModelWithOptions ==
    [currentView |-> ViewLoading,
     focus |-> FocusLeft,
     leftTrack |-> ZeroRating,
     rightTrack |-> ZeroRating]

\* The commands in flight: how many of each.
NoCommands == [initializeApp |-> 0, tick |-> 0, setupNextDuel |-> 0, sendError |-> 0]

\* Model.Init: tea.Batch(m.initializeApp, tea.EnterAltScreen).
InitCommands == [NoCommands EXCEPT !.initializeApp = 1]

\* A tea.Msg: its type and, for a DuelSetupCompleteMsg, its two fields.
Msg(type, left, right) == [type |-> type, Left |-> left, Right |-> right]

\* No pair is displayed yet.
NothingShown == [by |-> "none", outcomes |-> 0]

\* msgs without its i-th message.
Received(i) == SubSeq(msgs, 1, i - 1) \o SubSeq(msgs, i + 1, Len(msgs))

\* The statement at which the database refuses a ProcessDuel, if any.
FailAts == {"none", "updateLeft", "updateRight", "createDuel"}

\* ProcessDuel run to its return: the tables it leaves and the error it
\* returns, when the database refuses the statement failAt.
ProcessDuelToReturn(store, log, leftTrackID, rightTrackID, result, failAt) ==
    LET l == GetRating(store, leftTrackID)
        r == GetRating(store, rightTrackID)
        s == SwitchResult(result)
        u == UpdatedRatings(l, r, result)
        recorded == CreateDuel(log, leftTrackID, rightTrackID,
                               WinnerID(leftTrackID, rightTrackID, result))
    IN  IF GetRatingErr(store, leftTrackID) /= "nil"
        THEN [ratings |-> store, duels |-> log, err |-> GetRatingErr(store, leftTrackID)]
        ELSE IF GetRatingErr(store, rightTrackID) /= "nil"
        THEN [ratings |-> store, duels |-> log, err |-> GetRatingErr(store, rightTrackID)]
        ELSE IF s.kind = "skip"
        THEN IF failAt = "createDuel"
             THEN [ratings |-> store, duels |-> log, err |-> "error"]
             ELSE [ratings |-> store, duels |-> recorded, err |-> "nil"]
        ELSE IF s.kind = "invalid"
        THEN [ratings |-> store, duels |-> log, err |-> "nil"]
        ELSE IF failAt = "updateLeft"
        THEN [ratings |-> store, duels |-> log, err |-> "error"]
        ELSE IF failAt = "updateRight"
        THEN [ratings |-> UpdateRating(store, u.left), duels |-> log, err |-> "error"]
        ELSE IF failAt = "createDuel"
        THEN [ratings |-> UpdateRating(UpdateRating(store, u.left), u.right),
              duels |-> log, err |-> "error"]
        ELSE [ratings |-> UpdateRating(UpdateRating(store, u.left), u.right),
              duels |-> recorded, err |-> "nil"]

\* initializeApp: the authentication succeeds or fails.
initializeApp(ok) ==
    /\ cmds.initializeApp > 0
    /\ cmds' = [cmds EXCEPT !.initializeApp = @ - 1]
    /\ msgs' = Append(msgs, Msg(IF ok THEN "InitCompleteMsg" ELSE "ErrorMsg",
                                ZeroRating, ZeroRating))
    /\ UNCHANGED <<tracks, spotifyIDs, ratings, duels, pc, call, leftRating, rightRating, ret, before,
                   allTracks, calls, loads, locals, reply, m, shown, match>>

\* setupNextDuel: GetNextMatch on the store as it is when the command runs.
setupNextDuel(draw) ==
    /\ cmds.setupNextDuel > 0
    /\ cmds' = [cmds EXCEPT !.setupNextDuel = @ - 1]
    /\ \E loaded \in OrderedByEloDesc(tracks, ratings) :
          IF Len(loaded) < 2
          THEN msgs' = Append(msgs, Msg("ErrorMsg", ZeroRating, ZeroRating))
          ELSE \E pair \in NextMatches(loaded, draw) :
                   msgs' = Append(msgs, Msg("DuelSetupCompleteMsg", pair[1], pair[2]))
    /\ UNCHANGED <<tracks, spotifyIDs, ratings, duels, pc, call, leftRating, rightRating, ret, before,
                   allTracks, calls, loads, locals, reply, m, shown, match>>

\* The tea.Tick of handleVote's tea.Sequence fires after two seconds and
\* sends the key message "next".
tick ==
    /\ cmds.tick > 0
    /\ cmds' = [cmds EXCEPT !.tick = @ - 1]
    /\ msgs' = Append(msgs, Msg("KeyMsg", ZeroRating, ZeroRating))
    /\ UNCHANGED <<tracks, spotifyIDs, ratings, duels, pc, call, leftRating, rightRating, ret, before,
                   allTracks, calls, loads, locals, reply, m, shown, match>>

\* The command that sendError returns.
sendError ==
    /\ cmds.sendError > 0
    /\ cmds' = [cmds EXCEPT !.sendError = @ - 1]
    /\ msgs' = Append(msgs, Msg("ErrorMsg", ZeroRating, ZeroRating))
    /\ UNCHANGED <<tracks, spotifyIDs, ratings, duels, pc, call, leftRating, rightRating, ret, before,
                   allTracks, calls, loads, locals, reply, m, shown, match>>

\* Update, case InitCompleteMsg.
UpdateInitCompleteMsg(i) ==
    /\ i \in 1..Len(msgs)
    /\ msgs[i].type = "InitCompleteMsg"
    /\ msgs' = Received(i)
    /\ m' = [m EXCEPT !.currentView = ViewDuel]
    /\ cmds' = [cmds EXCEPT !.setupNextDuel = @ + 1]
    /\ UNCHANGED <<tracks, spotifyIDs, ratings, duels, pc, call, leftRating, rightRating, ret, before,
                   allTracks, calls, loads, locals, reply, shown, match>>

\* Update, case DuelSetupCompleteMsg: the pair of the message is displayed.
UpdateDuelSetupCompleteMsg(i) ==
    /\ i \in 1..Len(msgs)
    /\ msgs[i].type = "DuelSetupCompleteMsg"
    /\ msgs' = Received(i)
    /\ m' = [m EXCEPT !.leftTrack = msgs[i].Left, !.rightTrack = msgs[i].Right]
    /\ shown' = [by |-> "DuelSetupCompleteMsg", outcomes |-> 0]
    /\ UNCHANGED <<tracks, spotifyIDs, ratings, duels, pc, call, leftRating, rightRating, ret, before,
                   allTracks, calls, loads, locals, reply, cmds, match>>

\* Update, case ErrorMsg.
UpdateErrorMsg(i) ==
    /\ i \in 1..Len(msgs)
    /\ msgs[i].type = "ErrorMsg"
    /\ msgs' = Received(i)
    /\ m' = [m EXCEPT !.currentView = ViewError]
    /\ UNCHANGED <<tracks, spotifyIDs, ratings, duels, pc, call, leftRating, rightRating, ret, before,
                   allTracks, calls, loads, locals, reply, cmds, shown, match>>

\* Update, case tea.KeyMsg with the key "next" of the tick: handleKeyPress
\* takes its default case; the tea.Sequence goes on to m.setupNextDuel.
UpdateNextKeyMsg(i) ==
    /\ i \in 1..Len(msgs)
    /\ msgs[i].type = "KeyMsg"
    /\ msgs' = Received(i)
    /\ cmds' = [cmds EXCEPT !.setupNextDuel = @ + 1]
    /\ UNCHANGED <<tracks, spotifyIDs, ratings, duels, pc, call, leftRating, rightRating, ret, before,
                   allTracks, calls, loads, locals, reply, m, shown, match>>

\* handleKeyPress, keys "left", "h", "right", "l".
KeyFocus(focus) ==
    /\ m' = [m EXCEPT !.focus = focus]
    /\ UNCHANGED <<tracks, spotifyIDs, ratings, duels, pc, call, leftRating, rightRating, ret, before,
                   allTracks, calls, loads, locals, reply, cmds, msgs, shown, match>>

\* handleVote and handleSkip after their nil test: ProcessDuel on the pair
\* displayed, then the command for the next pair, or the error's.
ProcessDisplayedPair(result, failAt, next) ==
    LET done == ProcessDuelToReturn(ratings, duels, m.leftTrack.track_id,
                                    m.rightTrack.track_id, result, failAt)
    IN  /\ calls < MaxVotes
        /\ calls' = calls + 1
        /\ ratings' = done.ratings
        /\ duels' = done.duels
        /\ shown' = [shown EXCEPT !.outcomes = @ + 1]
        /\ cmds' = IF done.err /= "nil"
                   THEN [cmds EXCEPT !.sendError = @ + 1]
                   ELSE [cmds EXCEPT ![next] = @ + 1]

\* handleKeyPress, key "enter" outside the leaderboard: handleVote.
KeyEnter(failAt) ==
    /\ IF m.leftTrack = ZeroRating \/ m.rightTrack = ZeroRating
       THEN UNCHANGED <<ratings, duels, calls, cmds, shown>>
       ELSE ProcessDisplayedPair(IF m.focus = FocusLeft THEN WinnerLeft ELSE WinnerRight,
                                 failAt, "tick")
    /\ UNCHANGED <<tracks, spotifyIDs, pc, call, leftRating, rightRating, ret, before,
                   allTracks, loads, locals, reply, msgs, m, match>>

\* handleKeyPress, key "s": handleSkip, in every view.
KeyS(failAt) ==
    /\ IF m.leftTrack = ZeroRating \/ m.rightTrack = ZeroRating
       THEN UNCHANGED <<ratings, duels, calls, cmds, shown>>
       ELSE ProcessDisplayedPair(WinnerSkip, failAt, "setupNextDuel")
    /\ UNCHANGED <<tracks, spotifyIDs, pc, call, leftRating, rightRating, ret, before,
                   allTracks, loads, locals, reply, msgs, m, match>>

\* handleKeyPress, key "escape": back to the duel from the error.
KeyEscape ==
    /\ m' = IF m.currentView = ViewError
            THEN [m EXCEPT !.currentView = ViewDuel]
            ELSE m
    /\ UNCHANGED <<tracks, spotifyIDs, ratings, duels, pc, call, leftRating, rightRating, ret, before,
                   allTracks, calls, loads, locals, reply, cmds, msgs, shown, match>>

\* The other keys are not pressed here.  "c" opens the leaderboard, where
\* enter loads a pair of the leaderboard with no DuelSetupCompleteMsg and "up",
\* "down", "q" move and leave; "q" elsewhere quits; "r", " ", "t", "g" and "p"
\* call neither ProcessDuel nor setupNextDuel and load no pair.

(***************************************************************************)
(* GetNextMatch one step at a time: the call, the load and the choice of   *)
(* the pair up to a call of randomMatch, the two draws of randomMatch, and *)
(* each turn of its loop `for rightIdx == leftIdx`.  An index i of the     *)
(* source is the position i + 1 here.                                      *)
(***************************************************************************)
NoMatch ==
    [pc |-> "idle", draw |-> FALSE, allTracks |-> <<>>, leftIdx |-> 0, rightIdx |-> 0,
     redrawn |-> FALSE, left |-> ZeroRating, right |-> ZeroRating, err |-> "none"]

\* GetNextMatch is called; draw is mm.rand.Float64() < ExplorationRate.
GetNextMatchCalled(draw) ==
    /\ match.pc \in {"idle", "returned"}
    /\ match' = [NoMatch EXCEPT !.pc = "GetNextMatch", !.draw = draw]
    /\ UNCHANGED <<tracks, spotifyIDs, ratings, duels, pc, call, leftRating, rightRating, ret, before,
                   allTracks, calls, loads, locals, reply, m, cmds, msgs, shown>>

\* The pair of explorationMatch or balancedMatch is one that balancedMatch
\* takes from randomMatch (fewer than two experienced tracks).
CallsRandomMatch(loaded, draw) ==
    /\ ~shouldExplore(loaded, draw) \/ Len(SelectSeq(loaded, IsUnderplayed)) = 0
    /\ Len(SelectSeq(loaded, IsExperienced)) < 2

\* Lines 382-407 up to a call of randomMatch: the load, the length test, the
\* pair of explorationMatch or balancedMatch and the nil test.
GetNextMatchSelect ==
    /\ match.pc = "GetNextMatch"
    /\ \E loaded \in OrderedByEloDesc(tracks, ratings) :
          IF Len(loaded) < 2
          THEN match' = [match EXCEPT !.pc = "returned", !.allTracks = loaded,
                                      !.err = "besoin d'au moins 2 tracks pour un duel"]
          ELSE IF CallsRandomMatch(loaded, match.draw)
          THEN match' = [match EXCEPT !.pc = "randomMatch", !.allTracks = loaded]
          ELSE \E pair \in IF shouldExplore(loaded, match.draw)
                           THEN explorationMatch(loaded)
                           ELSE balancedMatch(loaded) :
                   IF pair[1] = ZeroRating \/ pair[2] = ZeroRating
                   THEN match' = [match EXCEPT !.pc = "randomMatch", !.allTracks = loaded]
                   ELSE match' = [match EXCEPT !.pc = "returned", !.allTracks = loaded,
                                               !.left = pair[1], !.right = pair[2],
                                               !.err = "nil"]
    /\ UNCHANGED <<tracks, spotifyIDs, ratings, duels, pc, call, leftRating, rightRating, ret, before,
                   allTracks, calls, loads, locals, reply, m, cmds, msgs, shown>>

\* randomMatch up to its loop: the length test and the two draws.
randomMatchDraw(leftIdx, rightIdx) ==
    /\ match.pc = "randomMatch"
    /\ IF Len(match.allTracks) < 2
       THEN match' = [match EXCEPT !.pc = "returned", !.err = "nil"]
       ELSE /\ leftIdx \in 1..Len(match.allTracks)
            /\ rightIdx \in 1..Len(match.allTracks)
            /\ match' = [match EXCEPT !.pc = "for", !.leftIdx = leftIdx,
                                      !.rightIdx = rightIdx]
    /\ UNCHANGED <<tracks, spotifyIDs, ratings, duels, pc, call, leftRating, rightRating, ret, before,
                   allTracks, calls, loads, locals, reply, m, cmds, msgs, shown>>

\* A random source that returns the left index at every draw of the loop.
randomMatchRedrawSame(rightIdx) ==
    /\ match.pc = "for"
    /\ match.rightIdx = match.leftIdx
    /\ match' = [match EXCEPT !.rightIdx = match.leftIdx, !.redrawn = TRUE]
    /\ UNCHANGED <<tracks, spotifyIDs, ratings, duels, pc, call, leftRating, rightRating, ret, before,
                   allTracks, calls, loads, locals, reply, m, cmds, msgs, shown>>

\* One turn of `for rightIdx == leftIdx { rightIdx = mm.rand.Intn(len(tracks)) }`.
randomMatchRedraw(rightIdx) ==
    /\ match.pc = "for"
    /\ match.rightIdx = match.leftIdx
    /\ rightIdx \in 1..Len(match.allTracks)
    /\ match' = [match EXCEPT !.rightIdx = rightIdx, !.redrawn = TRUE]
    /\ UNCHANGED <<tracks, spotifyIDs, ratings, duels, pc, call, leftRating, rightRating, ret, before,
                   allTracks, calls, loads, locals, reply, m, cmds, msgs, shown>>

\* The loop's test fails: randomMatch returns the two tracks and GetNextMatch
\* returns them.
randomMatchReturn ==
    /\ match.pc = "for"
    /\ match.rightIdx /= match.leftIdx
    /\ match' = [match EXCEPT !.pc = "returned",
                              !.left = match.allTracks[match.leftIdx],
                              !.right = match.allTracks[match.rightIdx],
                              !.err = "nil"]
    /\ UNCHANGED <<tracks, spotifyIDs, ratings, duels, pc, call, leftRating, rightRating, ret, before,
                   allTracks, calls, loads, locals, reply, m, cmds, msgs, shown>>

(***************************************************************************)
(* The import (main.go, -import): saveTracks of a batch that Spotify       *)
(* returned.  It runs to its end before the interface is started, so no    *)
(* ProcessDuel is running.  A track of a batch is written as its Spotify   *)
(* ID; the tables it touches are the record db.                            *)
(***************************************************************************)
\* The saveTracks calls explored, and the longest batch.
MaxImports == 2
MaxBatch == 2

SpotifyIDs == 1..MaxTracks

\* The batches: every sequence of at most MaxBatch Spotify IDs.
Batches == UNION {[1..n -> SpotifyIDs] : n \in 0..MaxBatch}

\* GetTrackBySpotifyID: the ID of the row, 0 for the nil it returns beside
\* sql.ErrNoRows or, when the SELECT fails (ok false), beside that error.
GetTrackBySpotifyID(column, spotifyID, ok) ==
    IF ok /\ \E i \in DOMAIN column : column[i] = spotifyID
    THEN CHOOSE i \in DOMAIN column : column[i] = spotifyID
    ELSE 0

\* CreateTrack as saveTracks calls it: the INSERT INTO tracks fails on a
\* spotify_id that a row carries (UNIQUE) or when the database refuses it
\* (ok false), and the transaction is rolled back.
CreateTrackIn(db, spotifyID, ok) ==
    LET trackID == Cardinality(db.tracks) + 1
    IN  IF ~ok \/ \E i \in db.tracks : db.spotifyIDs[i] = spotifyID
        THEN [db EXCEPT !.err = "error"]
        ELSE [tracks |-> db.tracks \cup {trackID},
              spotifyIDs |-> WithSpotifyID(db.spotifyIDs, trackID, spotifyID),
              ratings |-> [i \in DOMAIN db.ratings \cup {trackID} |->
                              IF i = trackID THEN InitialRating(trackID)
                              ELSE db.ratings[i]],
              err |-> "nil"]

\* A loop body that saves a track again when it exists: the row of its
\* rating starts anew (INSERT OR REPLACE).
SaveTrackReplacing(db, spotifyID, lookupOK, createOK) ==
    LET existing == GetTrackBySpotifyID(db.spotifyIDs, spotifyID, lookupOK)
    IN  IF existing /= 0
        THEN [db EXCEPT !.ratings[existing] = InitialRating(existing)]
        ELSE CreateTrackIn(db, spotifyID, createOK)

\* The body of the loop of saveTracks for one track: skip it when it exists,
\* else create it.
SaveTrack(db, spotifyID, lookupOK, createOK) ==
    LET existing == GetTrackBySpotifyID(db.spotifyIDs, spotifyID, lookupOK)
    IN  IF existing /= 0
        THEN db
        ELSE CreateTrackIn(db, spotifyID, createOK)

\* The loop over batch[i..]; the first error of CreateTrack is returned.  The
\* SELECT of position lookupFailAt and the INSERT of position createFailAt
\* fail (0: none does).
RECURSIVE SaveTracksFrom(_, _, _, _, _)
SaveTracksFrom(db, batch, i, lookupFailAt, createFailAt) ==
    IF i > Len(batch)
    THEN db
    ELSE LET saved == SaveTrack(db, batch[i], i /= lookupFailAt, i /= createFailAt)
         IN  IF saved.err /= "nil"
             THEN saved
             ELSE SaveTracksFrom(saved, batch, i + 1, lookupFailAt, createFailAt)

\* The number of saveTracks calls made so far.
Imports == IF reply.op = "saveTracks" THEN reply.n ELSE 0

\* saveTracks(db, batch, client).  The reply keeps the batch, the error, the
\* rows of tracks that existed before the call and the number of the call.
saveTracks(batch, lookupFailAt, createFailAt) ==
    /\ pc = "idle"
    /\ Imports < MaxImports
    /\ LET saved == SaveTracksFrom([tracks |-> tracks, spotifyIDs |-> spotifyIDs,
                                    ratings |-> ratings, err |-> "nil"],
                                   batch, 1, lookupFailAt, createFailAt)
       IN  /\ tracks' = saved.tracks
           /\ spotifyIDs' = saved.spotifyIDs
           /\ ratings' = saved.ratings
           /\ reply' = [op |-> "saveTracks", n |-> Imports + 1, batch |-> batch,
                        err |-> saved.err, existing |-> tracks]
    /\ UNCHANGED <<duels, pc, call, leftRating, rightRating, ret, before, allTracks,
                   calls, loads, locals, m, cmds, msgs, shown, match>>

(***************************************************************************)
(* The initial store: the database file as earlier sessions left it.  Two  *)
(* tracks were imported and, in n duels so far, track 1 beat track 2 each  *)
(* time; n = 0 is the store right after the import.                        *)
(***************************************************************************)
Streaks == {0, 9, 10, 29, 30, 138}

\* k more duels that the left track wins.
RECURSIVE Wins(_, _)
Wins(p, k) ==
    IF k = 0 THEN p ELSE Wins(UpdatedRatings(p.left, p.right, WinnerLeft), k - 1)

\* The two rating rows after n such duels, in steps of at most ten duels.
Streak0 == [left |-> InitialRating(1), right |-> InitialRating(2)]
Streak9 == Wins(Streak0, 9)
Streak10 == Wins(Streak9, 1)
Streak20 == Wins(Streak10, 10)
Streak29 == Wins(Streak20, 9)
Streak30 == Wins(Streak29, 1)
Streak40 == Wins(Streak30, 10)
Streak50 == Wins(Streak40, 10)
Streak60 == Wins(Streak50, 10)
Streak70 == Wins(Streak60, 10)
Streak80 == Wins(Streak70, 10)
Streak90 == Wins(Streak80, 10)
Streak100 == Wins(Streak90, 10)
Streak110 == Wins(Streak100, 10)
Streak120 == Wins(Streak110, 10)
Streak130 == Wins(Streak120, 10)
Streak138 == Wins(Streak130, 8)

AfterStreak(n) ==
    CASE n = 0 -> Streak0
      [] n = 9 -> Streak9
      [] n = 10 -> Streak10
      [] n = 29 -> Streak29
      [] n = 30 -> Streak30
      [] n = 138 -> Streak138

StreakLog(n) == [i \in 1..n |-> [left_track_id |-> 1, right_track_id |-> 2,
                                 winner_track_id |-> 1]]

Init ==
    \E n \in Streaks :
        /\ tracks = {1, 2}
        /\ spotifyIDs = [i \in {1, 2} |-> i]
        /\ ratings = (1 :> AfterStreak(n).left) @@ (2 :> AfterStreak(n).right)
        /\ duels = StreakLog(n)
        /\ pc = "idle"
        /\ call = [left |-> 0, right |-> 0, result |-> ""]
        /\ leftRating = ZeroRating
        /\ rightRating = ZeroRating
        /\ ret = "none"
        /\ before = [ratings |-> ratings, duels |-> duels]
        /\ allTracks = <<>>
        /\ calls = 0
        /\ loads = 0
        /\ locals = NoLocals
        /\ reply = NoReply
        /\ m = NewModelWithOptions
        /\ cmds = NoCommands
        /\ msgs = <<>>
        /\ shown = NothingShown
        /\ match = NoMatch

Next ==
    \/ \E l, r \in TrackIDs, result \in Results : ProcessDuel(l, r, result)
    \/ \E ok \in BOOLEAN : SaveLeft(ok)
    \/ \E ok \in BOOLEAN : SaveRight(ok)
    \/ \E ok \in BOOLEAN : RecordDuel(ok)
    \/ \E ok \in BOOLEAN : CreateTrack(ok)

\* The engine and the import, one statement at a time.
Spec == Init /\ [][Next]_vars

\* A store with the given tables, no call made yet and the interface in the
\* state given.
InitProgram(trackRows, store, log, commands) ==
    /\ tracks = trackRows
    /\ spotifyIDs = [i \in trackRows |-> i]
    /\ ratings = store
    /\ duels = log
    /\ pc = "idle"
    /\ call = [left |-> 0, right |-> 0, result |-> ""]
    /\ leftRating = ZeroRating
    /\ rightRating = ZeroRating
    /\ ret = "none"
    /\ before = [ratings |-> store, duels |-> log]
    /\ allTracks = <<>>
    /\ calls = 0
    /\ loads = 0
    /\ locals = NoLocals
    /\ reply = NoReply
    /\ m = NewModelWithOptions
    /\ cmds = commands
    /\ msgs = <<>>
    /\ shown = NothingShown
    /\ match = NoMatch

\* The same with the interface not started.
InitStore(trackRows, store, log) == InitProgram(trackRows, store, log, NoCommands)

\* The arithmetic alone: CalculateNewElo needs no store, so the database is
\* the empty one that migrate creates.
InitArithmetic == InitStore({}, <<>>, <<>>)

NextArithmetic ==
    \E oldElo \in OldElos, actualScore \in ActualScores,
       expectedScore \in ExpectedScores, kFactor \in KFactors :
        CallCalculateNewElo(oldElo, actualScore, expectedScore, kFactor)

SpecArithmetic == InitArithmetic /\ [][NextArithmetic]_vars

\* The structs a caller passes to GetMatchQuality: ratings at and beside each
\* threshold of the difference, with four or five battles counted in wins,
\* losses and draws.
QualityElos == {InitialElo + d : d \in {0, 25, 26, 50, 51, 100, 101, 200, 201}}
QualityCounters == {<<4, 0, 0>>, <<1, 1, 2>>, <<2, 2, 1>>, <<0, 0, 5>>}
QualityRows(id) ==
    {Rating(id, elo, c[1], c[2], c[3]) : elo \in QualityElos, c \in QualityCounters}

\* A direct call of GetMatchQuality(left, right).
CallGetMatchQualityOf(left, right) ==
    /\ reply' = [op |-> "GetMatchQuality", left |-> left, right |-> right,
                 value |-> GetMatchQuality(left, right)]
    /\ UNCHANGED <<tracks, spotifyIDs, ratings, duels, pc, call, leftRating, rightRating, ret,
                   before, allTracks, calls, loads, locals,
                   m, cmds, msgs, shown, match>>

NextQuality ==
    \E left \in QualityRows(1), right \in QualityRows(2) : CallGetMatchQualityOf(left, right)

SpecQuality == InitArithmetic /\ [][NextQuality]_vars

\* The arguments a caller passes to findBestOpponent: a target among three
\* tracks and candidates, each track at most once, in any order, with ratings
\* at, within, on the edge of and beyond EloRange on either side of the
\* initial rating.
OpponentElos == {InitialElo + d : d \in {-EloRange - 1, -EloRange, 0, 50, EloRange, EloRange + 1}}

OpponentIDs == 1..MaxTracks

CandidateLists ==
    {ids \in UNION {[1..n -> OpponentIDs] : n \in 0..MaxTracks} :
        \A i, j \in DOMAIN ids : ids[i] = ids[j] => i = j}

\* A direct call of findBestOpponent(target, candidates), one in a behaviour;
\* the tracks are written as their rating rows, elos[id] the rating of track
\* id.
CallFindBestOpponent(elos, targetID, ids) ==
    LET row(id) == Rating(id, elos[id], 0, 0, 0)
        candidates == [i \in DOMAIN ids |-> row(ids[i])]
    IN  /\ reply = NoReply
        /\ reply' = [op |-> "findBestOpponent", target |-> row(targetID),
                     candidates |-> candidates,
                     value |-> findBestOpponent(row(targetID), candidates)]
        /\ UNCHANGED <<tracks, spotifyIDs, ratings, duels, pc, call, leftRating, rightRating,
                       ret, before, allTracks, calls, loads, locals,
                       m, cmds, msgs, shown, match>>

NextOpponent ==
    \E elos \in [OpponentIDs -> OpponentElos], targetID \in OpponentIDs,
       ids \in CandidateLists :
        CallFindBestOpponent(elos, targetID, ids)

SpecOpponent == InitArithmetic /\ [][NextOpponent]_vars

(***************************************************************************)
(* Stores that earlier sessions left behind: n imported tracks and the     *)
(* duels played since, each a <<left, right, result>> that ProcessDuel     *)
(* completed.                                                              *)
(***************************************************************************)
Fresh(n) == [i \in 1..n |-> InitialRating(i)]

Repeat(duel, k) == [i \in 1..k |-> duel]

\* The rating rows after the duels history[i..]: what UpdateRating(left),
\* UpdateRating(right) leave of each.
RECURSIVE Replay(_, _, _)
Replay(store, history, i) ==
    IF i > Len(history)
    THEN store
    ELSE LET u == UpdatedRatings(GetRating(store, history[i][1]),
                                 GetRating(store, history[i][2]), history[i][3])
         IN  Replay(UpdateRating(UpdateRating(store, u.left), u.right), history, i + 1)

\* The records CreateDuel wrote for them.
HistoryLog(history) ==
    [i \in 1..Len(history) |->
        [left_track_id |-> history[i][1],
         right_track_id |-> history[i][2],
         winner_track_id |-> WinnerID(history[i][1], history[i][2], history[i][3])]]

\* A pool: the tracks 1..n, their rating rows and the duels played.
Pool(n, rows, history) == [n |-> n, rows |-> rows, history |-> history]

\* A new database.
EmptyPool == Pool(0, Fresh(0), <<>>)

\* Three tracks met in their first duels: 1 beat 2, then 2 beat 3 twice.
TriangleHistory == <<<<1, 2, "left">>, <<2, 3, "left">>, <<2, 3, "left">>>>
TrianglePool == Pool(3, Replay(Fresh(3), TriangleHistory, 1), TriangleHistory)

\* Tracks 1 and 2 have five duels each; track 3 was imported later.
SeasonedHistory == Repeat(<<1, 2, "left">>, 5)
TwoSeasonedPool == Pool(3, Replay(Fresh(3), SeasonedHistory, 1), SeasonedHistory)

\* The same with two tracks imported later.
HalfSeasonedPool == Pool(4, Replay(Fresh(4), SeasonedHistory, 1), SeasonedHistory)

\* Three tracks of at least five duels each, all within EloRange of each other.
CloseHistory ==
    <<<<1, 2, "left">>, <<2, 1, "left">>, <<1, 3, "left">>, <<3, 1, "draw">>,
      <<2, 3, "left">>, <<3, 2, "draw">>, <<1, 2, "draw">>, <<1, 3, "left">>>>
ClosePool == Pool(3, Replay(Fresh(3), CloseHistory, 1), CloseHistory)

\* Three tracks of at least ten duels each, none within EloRange of another;
\* the rows are computed one series of duels at a time.
FarHistory1 == Repeat(<<1, 2, "left">>, 9)
FarHistory2 == Repeat(<<3, 2, "left">>, 5)
FarHistory3 == Repeat(<<1, 3, "left">>, 5)
FarRows1 == Replay(Fresh(3), FarHistory1, 1)
FarRows2 == Replay(FarRows1, FarHistory2, 1)
FarRows3 == Replay(FarRows2, FarHistory3, 1)
FarPool == Pool(3, FarRows3, FarHistory1 \o FarHistory2 \o FarHistory3)

\* Track 1 beat track 2 once; since then track 2 beat track 3 six times.
StaleHistory == <<<<1, 2, "left">>>> \o Repeat(<<2, 3, "left">>, 6)
StalePool == Pool(3, Replay(Fresh(3), StaleHistory, 1), StaleHistory)

Pools == {EmptyPool, TrianglePool, TwoSeasonedPool, HalfSeasonedPool, ClosePool, FarPool,
          StalePool}

InitQueries ==
    \E pool \in Pools : InitStore(1..pool.n, pool.rows, HistoryLog(pool.history))

\* Two tracks just imported.
InitFresh == InitStore(1..2, Fresh(2), <<>>)

\* The read-only calls and the import.
NextQueries ==
    \/ Queries
    \/ \E ok \in BOOLEAN : CreateTrack(ok)

SpecQueries == InitQueries /\ [][NextQueries]_vars

\* The engine and the import with one read-only call at any point of them.
\* A read-only call changes reply alone, so the states of the store and of
\* ProcessDuel from which a call is made are those of any number of calls.
NextCore ==
    \/ Next
    \/ reply = NoReply /\ Queries

SpecCore == InitFresh /\ [][NextCore]_vars

\* The interface started on a store of two tracks just imported.
InitTUI == InitProgram(1..2, Fresh(2), <<>>, InitCommands)

NextTUI ==
    \/ \E ok \in BOOLEAN : initializeApp(ok)
    \/ \E draw \in BOOLEAN : setupNextDuel(draw)
    \/ tick
    \/ sendError
    \/ \E i \in 1..Len(msgs) : UpdateInitCompleteMsg(i)
    \/ \E i \in 1..Len(msgs) : UpdateDuelSetupCompleteMsg(i)
    \/ \E i \in 1..Len(msgs) : UpdateErrorMsg(i)
    \/ \E i \in 1..Len(msgs) : UpdateNextKeyMsg(i)
    \/ \E focus \in {FocusLeft, FocusRight} : KeyFocus(focus)
    \/ \E failAt \in FailAts : KeyEnter(failAt)
    \/ \E failAt \in FailAts : KeyS(failAt)
    \/ KeyEscape

SpecTUI == InitTUI /\ [][NextTUI]_vars

\* Two tracks of which the first has five battles: GetNextMatch returned it
\* on both sides and five votes were recorded.
LoneHistory == Repeat(<<1, 1, "left">>, 5)
LonePool == Pool(2, Replay(Fresh(2), LoneHistory, 1), LoneHistory)

\* Two tracks just imported.
FreshPool == Pool(2, Fresh(2), <<>>)

MatchPools == Pools \cup {LonePool, FreshPool}

InitMatch ==
    \E pool \in MatchPools : InitStore(1..pool.n, pool.rows, HistoryLog(pool.history))

NextMatch ==
    \/ \E draw \in BOOLEAN : GetNextMatchCalled(draw)
    \/ GetNextMatchSelect
    \/ \E leftIdx, rightIdx \in 1..MaxTracks + 1 : randomMatchDraw(leftIdx, rightIdx)
    \/ \E rightIdx \in 1..MaxTracks + 1 : randomMatchRedraw(rightIdx)
    \/ randomMatchReturn

\* GetNextMatch step by step, whatever the random source returns.
SpecMatch == InitMatch /\ [][NextMatch]_vars

\* A call that has begun goes on, and the random source is fair: in the loop
\* it does not return the left index for ever.
FairMatch ==
    /\ WF_vars(GetNextMatchSelect)
    /\ WF_vars(\E leftIdx, rightIdx \in 1..MaxTracks + 1 : randomMatchDraw(leftIdx, rightIdx))
    /\ WF_vars(\E rightIdx \in 1..MaxTracks + 1 : randomMatchRedraw(rightIdx))
    /\ WF_vars(randomMatchReturn)

SpecMatchFair == SpecMatch /\ FairMatch

\* The engine and imports between its calls.
NextImport ==
    \/ Next
    \/ \E batch \in Batches :
          \E lookupFailAt, createFailAt \in 0..Len(batch) :
             saveTracks(batch, lookupFailAt, createFailAt)

\* The stores the imports start from: fresh, and after ten duels.
ImportStreaks == {0, 10}

InitImport ==
    \E n \in ImportStreaks :
        InitStore({1, 2}, (1 :> AfterStreak(n).left) @@ (2 :> AfterStreak(n).right),
                  StreakLog(n))

SpecImport == InitImport /\ [][NextImport]_vars

\* The same with the reader's goroutine beside them.
NextWithReader ==
    \/ Next
    \/ LoadAllTracks

SpecWithReader == Init /\ [][NextWithReader]_vars

(***************************************************************************)
(* What the claims speak of.                                               *)
(***************************************************************************)
ValidResults == {"left", "right", "draw", "skip"}

\* |x|.
Magnitude(x) == IF x < 0 THEN -x ELSE x

\* The running or last call named two tracks that both had a rating row.
BothRated == call.left \in DOMAIN before.ratings /\ call.right \in DOMAIN before.ratings

\* The last call has returned v.
Returned(v) == pc = "idle" /\ ret = v

\* Every rating row that existed when the call began is as it was.
RatingsUnchanged == \A id \in DOMAIN before.ratings : ratings[id] = before.ratings[id]

\* The rows of the two participants as the call found them.
PreLeft == before.ratings[call.left]
PreRight == before.ratings[call.right]

\* The record the claims expect of the call: its two IDs and its winner.
ExpectedRecord ==
    [left_track_id |-> call.left,
     right_track_id |-> call.right,
     winner_track_id |-> IF call.result = "left" THEN call.left
                         ELSE IF call.result = "right" THEN call.right
                         ELSE NoWinner]

\* K as the specification tabulates it.
TabulatedK(totalBattles) ==
    IF totalBattles < 10 THEN 32 ELSE IF totalBattles < 30 THEN 24 ELSE 16

\* The row the specification expects for one side of a decided duel: the new
\* rating from the two pre-update ratings and the side's own pre-update
\* battles, and one counter more.
ExpectedRow(own, other, won, lost) ==
    LET actual == IF won THEN Unit ELSE IF lost THEN 0 ELSE Half
    IN  Rating(own.track_id,
               CalculateNewElo(own.elo, actual,
                               CalculateExpectedScore(own.elo, other.elo),
                               GetKFactor(own.wins + own.losses + own.draws)),
               own.wins + (IF won THEN 1 ELSE 0),
               own.losses + (IF lost THEN 1 ELSE 0),
               own.draws + (IF won \/ lost THEN 0 ELSE 1))

\* C1: a skip of two rated tracks never changes a rating row, while it runs
\* or after; when it returns success the log is the old log plus one record
\* of the pair with no winner, and when the insert fails the log is as before.
C1_SkipKeepsRatingsAndRecordsOnce ==
    (call.result = "skip" /\ BothRated) =>
        /\ RatingsUnchanged
        /\ Returned("nil") =>
              duels = Append(before.duels,
                             [left_track_id |-> call.left,
                              right_track_id |-> call.right,
                              winner_track_id |-> NoWinner])
        /\ ~Returned("nil") => duels = before.duels

\* A skip of two different rated tracks has returned success.
C1_Witness ==
    /\ call.result = "skip"
    /\ BothRated
    /\ call.left /= call.right
    /\ Returned("nil")
    /\ Len(duels) = Len(before.duels) + 1

\* C2: a call for left, right or draw between two different rated tracks
\* that returns a store error leaves the store as it was: no rating row
\* changed and no record appended.
C2_FailedWriteLeavesStore ==
    (/\ Returned("error")
     /\ call.result \in {"left", "right", "draw"}
     /\ call.left /= call.right) =>
        RatingsUnchanged /\ duels = before.duels

\* The loaded slice shows one participant's row as this call saved it beside
\* the other participant's row as it was before the call.
TornRead ==
    /\ BothRated
    /\ call.left /= call.right
    /\ call.result \in {"left", "right", "draw"}
    /\ \E i, j \in 1..Len(allTracks) :
          \/ allTracks[i] = leftRating /\ allTracks[j] = PreRight
          \/ allTracks[j] = rightRating /\ allTracks[i] = PreLeft

\* C3: no load of the rated tracks shows one participant updated and the
\* other one stale.
C3_NoTornRead == ~TornRead

\* C4: a call with a result outside the four values returns an error and
\* changes nothing.
C4_InvalidOutcomeFails ==
    (pc = "idle" /\ calls > 0 /\ call.result \notin ValidResults) =>
        /\ ret /= "nil"
        /\ RatingsUnchanged
        /\ duels = before.duels

\* C5: a call that names a track without a rating row never gets past its
\* reads: it returns sql.ErrNoRows whatever the result, no rating row changes
\* and no record is appended.
C5_MissingRatingIsNotFound ==
    (calls > 0 /\ ~BothRated) =>
        /\ Returned("sql.ErrNoRows")
        /\ RatingsUnchanged
        /\ duels = before.duels

\* The left track is rated, the right one is not, and the result is no valid
\* one: the call returned the read's error.
C5_Witness ==
    /\ calls > 0
    /\ call.left \in DOMAIN before.ratings
    /\ call.right \notin DOMAIN before.ratings
    /\ call.result \notin ValidResults
    /\ Returned("sql.ErrNoRows")

\* C6: a call that returns success has appended exactly one record to the
\* log as it was, carrying the two IDs and the winner of the result.
C6_SuccessAppendsOneRecord ==
    Returned("nil") => duels = Append(before.duels, ExpectedRecord)

\* C7: after a successful left, right or draw, each side's row is the
\* expected one: new rating from the pre-update ratings and its own K, and
\* exactly one counter more.
C7_BothSidesStored ==
    (Returned("nil") /\ call.result \in {"left", "right", "draw"}) =>
        /\ ratings[call.left] =
              ExpectedRow(PreLeft, PreRight, call.result = "left", call.result = "right")
        /\ ratings[call.right] =
              ExpectedRow(PreRight, PreLeft, call.result = "right", call.result = "left")

C9_FreshLeftWin ==
    (/\ Returned("nil")
     /\ call.result = "left"
     /\ call.left /= call.right
     /\ BothRated
     /\ PreLeft = Rating(call.left, 1200, 0, 0, 0)
     /\ PreRight = Rating(call.right, 1200, 0, 0, 0)) =>
        /\ ratings[call.left] = Rating(call.left, 1216, 1, 0, 0)
        /\ ratings[call.right] = Rating(call.right, 1184, 0, 1, 0)

\* Left has won between two different fresh tracks.
C9_Witness ==
    /\ Returned("nil")
    /\ call.result = "left"
    /\ call.left /= call.right
    /\ BothRated
    /\ PreLeft = Rating(call.left, 1200, 0, 0, 0)
    /\ PreRight = Rating(call.right, 1200, 0, 0, 0)

\* The call computed new ratings for a winner and a loser.
Decided == BothRated /\ call.result \in {"left", "right"}

WinnerOld == IF call.result = "left" THEN PreLeft.elo ELSE PreRight.elo
WinnerNew == IF call.result = "left" THEN locals.newLeftElo ELSE locals.newRightElo
LoserOld == IF call.result = "left" THEN PreRight.elo ELSE PreLeft.elo
LoserNew == IF call.result = "left" THEN locals.newRightElo ELSE locals.newLeftElo

\* C10 as stated: the winner's new rating is strictly above its old one and
\* the loser's strictly below.
C10_StrictlyMonotone ==
    Decided => WinnerNew > WinnerOld /\ LoserNew < LoserOld

\* C10 as amended: the winner's new rating is never below its old one and the
\* loser's never above; between two different tracks these are the ratings
\* the call stores.
C10_Monotone ==
    Decided =>
        /\ WinnerNew >= WinnerOld
        /\ LoserNew <= LoserOld
        /\ (Returned("nil") /\ call.left /= call.right) =>
              /\ ratings[call.left].elo = locals.newLeftElo
              /\ ratings[call.right].elo = locals.newRightElo

\* A decided duel between two different tracks that left both ratings as
\* they were.
C10_Witness ==
    /\ Decided
    /\ call.left /= call.right
    /\ Returned("nil")
    /\ WinnerNew = WinnerOld
    /\ LoserNew = LoserOld

\* What SimulateDuel returns for the arguments of the last ProcessDuel on the
\* store as that call found it.
Simulated == SimulateDuel(before.ratings, call.left, call.right, call.result)

\* C12: when ProcessDuel has returned success for left, right, draw or skip
\* on two rated tracks, the change of each side's stored rating is the
\* Change that SimulateDuel reports for that side on the same store and
\* arguments.
C12_SimulationMatchesProcessing ==
    (Returned("nil") /\ call.result \in ValidResults /\ BothRated) =>
        /\ Simulated.err = "nil"
        /\ Len(Simulated.changes) = 2
        /\ Simulated.changes[1].Change = ratings[call.left].elo - PreLeft.elo
        /\ Simulated.changes[2].Change = ratings[call.right].elo - PreRight.elo

\* C13: a step in which a read-only call returns (GetNextMatch,
\* SimulateDuel, GetEloRanking, GetMatchQuality, GetRecentOpponents,
\* AvoidRecentOpponent, GetEloStats) changes no rating row, no track and no
\* record of the log; a rating row that exists changes only in a step of a
\* ProcessDuel that is saving a left, right or draw; the log changes only in
\* the step that records a duel.
C13_OnlyProcessDuelWrites ==
    [][/\ reply' /= reply => (ratings' = ratings /\ duels' = duels /\ tracks' = tracks)
       /\ \A id \in DOMAIN ratings :
             ratings'[id] /= ratings[id] =>
                 /\ pc \in {"updateLeft", "updateRight"}
                 /\ call.result \in {"left", "right", "draw"}
       /\ duels' /= duels => pc = "createDuel"]_vars

\* SimulateDuel has projected a change of both ratings after a ProcessDuel
\* changed them, and the rows are as that ProcessDuel left them.
C13_Witness ==
    /\ reply.op = "SimulateDuel"
    /\ Len(reply.changes) = 2
    /\ reply.changes[1].Change /= 0
    /\ Returned("nil")
    /\ call.result = "left"
    /\ call.left /= call.right
    /\ ratings[call.left] = leftRating
    /\ ratings[call.right] = rightRating
    /\ reply.changes[1].OldElo = ratings[reply.leftTrackID].elo

(***************************************************************************)
(* GetNextMatch.                                                           *)
(***************************************************************************)

\* The last read-only call was GetNextMatch; the rows it loaded.
MatchReply == reply.op = "GetNextMatch"
LoadedRows == {reply.allTracks[i] : i \in 1..Len(reply.allTracks)}

\* The rated items of the store: the tracks that have a rating row.
RatedItems == {ratings[id] : id \in tracks \cap DOMAIN ratings}

\* The store is as GetNextMatch loaded it.
StoreAsLoaded == LoadedRows = RatedItems

\* The items with fewer than five battles among those loaded.
UnderplayedRows == {t \in LoadedRows : t.wins + t.losses + t.draws < 5}

InsufficientData == "besoin d'au moins 2 tracks pour un duel"

C15_PairIsTwoDifferentItems ==
    (MatchReply /\ reply.err = "nil") => reply.left.track_id /= reply.right.track_id

\* C16: when the items of fewer than five battles are more than half of the
\* items loaded, GetNextMatch explores whatever the draw and the pair has an
\* item of fewer than five battles; when they are half or fewer, whether it
\* explores is the draw.
C16_ExplorationForcedAboveHalf ==
    (MatchReply /\ reply.err = "nil") =>
        IF 2 * Cardinality(UnderplayedRows) > Cardinality(LoadedRows)
        THEN /\ reply.shouldExplore
             /\ reply.left \in UnderplayedRows \/ reply.right \in UnderplayedRows
        ELSE reply.shouldExplore = reply.draw

\* Exactly half of the items are underplayed, the draw did not ask for
\* exploration and the pair is two experienced items.
C16_Witness ==
    /\ MatchReply
    /\ reply.err = "nil"
    /\ 2 * Cardinality(UnderplayedRows) = Cardinality(LoadedRows)
    /\ ~reply.draw
    /\ ~reply.shouldExplore
    /\ reply.left \notin UnderplayedRows
    /\ reply.right \notin UnderplayedRows

\* C17: when every item loaded has at least five battles, the right item is
\* another item than the left one and no other item is closer in rating to
\* the left one, whatever the draw.
C17_RightIsClosest ==
    (MatchReply /\ reply.err = "nil" /\ UnderplayedRows = {}) =>
        /\ reply.right \in LoadedRows
        /\ reply.right.track_id /= reply.left.track_id
        /\ \A other \in LoadedRows :
              other.track_id /= reply.left.track_id =>
                  Magnitude(reply.left.elo - reply.right.elo)
                      <= Magnitude(reply.left.elo - other.elo)

\* All items are experienced, the draw asked for exploration, the right item
\* is more than 100 points from the left one and a third item is farther.
C17_Witness ==
    /\ MatchReply
    /\ reply.err = "nil"
    /\ UnderplayedRows = {}
    /\ reply.draw
    /\ Magnitude(reply.left.elo - reply.right.elo) > 100
    /\ \E other \in LoadedRows :
          /\ other.track_id /= reply.left.track_id
          /\ Magnitude(reply.left.elo - other.elo)
                > Magnitude(reply.left.elo - reply.right.elo)

(***************************************************************************)
(* The ranking.                                                            *)
(***************************************************************************)
RankingReply == reply.op = "GetEloRanking"
Ranked == {reply.value[i] : i \in 1..Len(reply.value)}

\* C18: for a limit >= 0 GetEloRanking returns min(limit, number of items)
\* different items of the store in non-increasing order of rating, and no
\* item left out has a higher rating than an item returned.
C18_RankingIsTopByRating ==
    (RankingReply /\ reply.limit >= 0) =>
        /\ Len(reply.value) = IF reply.limit < Cardinality(reply.joined)
                               THEN reply.limit
                               ELSE Cardinality(reply.joined)
        /\ Ranked \subseteq reply.joined
        /\ Cardinality(Ranked) = Len(reply.value)
        /\ \A i, j \in 1..Len(reply.value) :
              i < j => reply.value[i].elo >= reply.value[j].elo
        /\ \A omitted \in reply.joined \ Ranked :
              \A returned \in Ranked : omitted.elo <= returned.elo

\* A ranking of two items of different ratings that leaves out a third of a
\* lower rating.
C18_Witness ==
    /\ RankingReply
    /\ reply.limit = 2
    /\ Len(reply.value) = 2
    /\ reply.value[1].elo > reply.value[2].elo
    /\ \E omitted \in reply.joined \ Ranked : omitted.elo < reply.value[2].elo

\* C19: a GetEloRanking call that follows a GetEloRanking call with the same
\* limit (>= 0) on the same rows returns the same sequence: the order of
\* items of equal rating is fixed.
C19_RankingIsDeterministic ==
    [][(/\ RankingReply
        /\ reply.limit >= 0
        /\ reply'.op = "GetEloRanking"
        /\ reply'.limit = reply.limit
        /\ reply'.joined = reply.joined) => reply'.value = reply.value]_vars

(***************************************************************************)
(* GetRecentOpponents.                                                     *)
(***************************************************************************)

\* The duels of the history read that involve the track asked for, and the
\* opponent in each.
Involving == {i \in 1..Len(reply.history) :
                 \/ reply.history[i].left_track_id = reply.trackID
                 \/ reply.history[i].right_track_id = reply.trackID}
OpponentIn(i) ==
    IF reply.history[i].left_track_id = reply.trackID
    THEN reply.history[i].right_track_id
    ELSE reply.history[i].left_track_id
DistinctOpponents == {OpponentIn(i) : i \in Involving}

\* The last duel against an opponent; the opponents by most recent duel.
LastMet(o) == CHOOSE i \in Involving :
                  /\ OpponentIn(i) = o
                  /\ \A j \in Involving : OpponentIn(j) = o => j <= i
ByRecency ==
    [k \in 1..Cardinality(DistinctOpponents) |->
        CHOOSE o \in DistinctOpponents :
            Cardinality({q \in DistinctOpponents : LastMet(q) > LastMet(o)}) = k - 1]

\* C20: GetRecentOpponents(trackID, limit) returns the first limit distinct
\* opponents of the track met when the whole history is scanned from the
\* most recent duel back: all of them when there are fewer than limit.
C20_FirstDistinctOpponents ==
    reply.op = "GetRecentOpponents" =>
        reply.value = SubSeq(ByRecency, 1,
                             IF reply.limit < Len(ByRecency)
                             THEN reply.limit
                             ELSE Len(ByRecency))

(***************************************************************************)
(* AvoidRecentOpponent.                                                    *)
(***************************************************************************)

\* The opponents of a track in a log, and the last duel against each.
OpponentsOf(log, trackID) ==
    {IF log[i].left_track_id = trackID THEN log[i].right_track_id ELSE log[i].left_track_id :
        i \in {j \in 1..Len(log) : log[j].left_track_id = trackID
                                     \/ log[j].right_track_id = trackID}}
LastDuelAgainst(log, trackID, o) ==
    CHOOSE i \in 1..Len(log) :
        /\ {log[i].left_track_id, log[i].right_track_id} = {trackID, o}
        /\ \A j \in 1..Len(log) :
              {log[j].left_track_id, log[j].right_track_id} = {trackID, o} => j <= i

\* The last n distinct opponents of a track: those with fewer than n other
\* opponents met more recently.
LastOpponents(log, trackID, n) ==
    {o \in OpponentsOf(log, trackID) :
        Cardinality({q \in OpponentsOf(log, trackID) :
                        LastDuelAgainst(log, trackID, q) > LastDuelAgainst(log, trackID, o)})
            < n}

AvoidReply == reply.op = "AvoidRecentOpponent"
AvoidCandidates == {reply.candidates[i] : i \in 1..Len(reply.candidates)}
AvoidOthers == {c \in AvoidCandidates : c.track_id /= reply.target.track_id}
AvoidRecent == LastOpponents(reply.history, reply.target.track_id, 3)
AvoidEligible == {c \in AvoidOthers : c.track_id \notin AvoidRecent}

\* C21: AvoidRecentOpponent never returns the target; when a candidate other
\* than the target is none of the target's last 3 distinct opponents it
\* returns none of those opponents; when every other candidate is one of them
\* it returns findBestOpponent of the unfiltered candidates.
C21_AvoidsLastThreeOpponents ==
    AvoidReply =>
        /\ reply.value.track_id /= reply.target.track_id
        /\ AvoidEligible /= {} => reply.value \in AvoidEligible
        /\ AvoidEligible = {} => reply.value = findBestOpponent(reply.target, reply.candidates)

\* The items loaded that the left item of the pair could meet without meeting
\* one of its last 3 distinct opponents again.  No call of this specification
\* writes the log, so duels is the log as GetNextMatch found it.
MatchRecent == LastOpponents(duels, reply.left.track_id, 3)
MatchEligible == {t \in LoadedRows : /\ t.track_id /= reply.left.track_id
                                      /\ t.track_id \notin MatchRecent}

\* C22: when an item loaded is neither the left item nor one of the left
\* item's last 3 distinct opponents in the log, the right item that
\* GetNextMatch returns is none of those opponents.
C22_NextMatchAvoidsRecentOpponents ==
    (MatchReply /\ reply.err = "nil" /\ MatchEligible /= {}) =>
        reply.right.track_id \notin MatchRecent

(***************************************************************************)
(* The rows of tracks and ratings.                                         *)
(***************************************************************************)

\* C23: before and after every step the tracks that have a rating row are
\* exactly the tracks (the key track_id allows one row each); no step removes
\* a track; a track that a step adds has the row (1200, 0, 0, 0) after that
\* same step; a step that adds none leaves the set of rating rows as it was.
C23_OneRatingPerTrack ==
    [][/\ DOMAIN ratings = tracks
       /\ DOMAIN ratings' = tracks'
       /\ tracks \subseteq tracks'
       /\ \A id \in tracks' \ tracks : ratings'[id] = Rating(id, 1200, 0, 0, 0)]_vars

\* A third track was created and has since won a duel: it still has its one
\* row, which the call found as CreateTrack made it.
C23_Witness ==
    /\ tracks = {1, 2, 3}
    /\ DOMAIN ratings = tracks
    /\ Returned("nil")
    /\ call.left = 3
    /\ call.right /= 3
    /\ call.result = "left"
    /\ before.ratings[3] = Rating(3, 1200, 0, 0, 0)
    /\ ratings[3].wins = 1

(***************************************************************************)
(* GetMatchQuality.                                                        *)
(***************************************************************************)
QualityReply == reply.op = "GetMatchQuality"
QualityDifference == Magnitude(reply.left.elo - reply.right.elo)
Battles(row) == row.wins + row.losses + row.draws

\* The label the specification tabulates, in the program's words: Perfect is
\* "Parfait", Good "Bon", Average "Moyen", Unbalanced "Desequilibre".
TabulatedQuality ==
    IF Battles(reply.left) < 5 \/ Battles(reply.right) < 5 THEN "Exploration"
    ELSE IF QualityDifference <= 25 THEN "Parfait"
    ELSE IF QualityDifference <= 50 THEN "Excellent"
    ELSE IF QualityDifference <= 100 THEN "Bon"
    ELSE IF QualityDifference <= 200 THEN "Moyen"
    ELSE "Desequilibre"

\* C24: GetMatchQuality returns Exploration when either side has fewer than
\* five battles, whatever the difference; otherwise the label of the absolute
\* difference (<= 25, <= 50, <= 100, <= 200, above); and the same label for
\* the two sides swapped.
C24_QualityByDifference ==
    QualityReply =>
        /\ reply.value = TabulatedQuality
        /\ GetMatchQuality(reply.right, reply.left) = reply.value

\* The left side has five battles, the right side four, and they are more
\* than 200 points apart: the label is Exploration.
C24_Witness ==
    /\ QualityReply
    /\ Battles(reply.left) = 5
    /\ Battles(reply.right) = 4
    /\ QualityDifference > 200
    /\ reply.value = "Exploration"

(***************************************************************************)
(* The request/update/request loop of the interface.                       *)
(***************************************************************************)

\* C25: for a pair that a DuelSetupCompleteMsg loaded, at most one
\* ProcessDuel call is made while it is the pair displayed.
C25_OneOutcomePerPair ==
    shown.by = "DuelSetupCompleteMsg" => shown.outcomes <= 1

(***************************************************************************)
(* Termination of GetNextMatch.                                            *)
(***************************************************************************)

\* C26: a GetNextMatch call that has begun on a store of at least two rated
\* tracks returns, and it returns two tracks and no error.
C26_NextMatchReturns ==
    (match.pc = "GetNextMatch" /\ Cardinality(RatedItems) >= 2)
        ~> (/\ match.pc = "returned"
            /\ match.err = "nil"
            /\ match.left /= ZeroRating
            /\ match.right /= ZeroRating)

\* randomMatch drew the same index twice, went through its loop and returned
\* two different tracks.
C26_Witness ==
    /\ match.pc = "returned"
    /\ match.redrawn
    /\ match.err = "nil"
    /\ match.left.track_id /= match.right.track_id

(***************************************************************************)
(* The import.                                                             *)
(***************************************************************************)

\* The tables after a step, as a record.
DbAfter == [tracks |-> tracks', spotifyIDs |-> spotifyIDs', ratings |-> ratings', err |-> "nil"]

\* C27: a step of saveTracks keeps every track that existed with its Spotify
\* ID and its rating row (rating, wins, losses, draws) as they were, leaves
\* no two tracks with one Spotify ID and no track without its one rating row,
\* and appends nothing to the log; and when it returned no error, saving the
\* same batch once more leaves the tables as they are.
C27_ImportKeepsExistingItems ==
    [][(reply'.op = "saveTracks" /\ reply' /= reply) =>
          /\ \A id \in tracks : /\ id \in tracks'
                                /\ spotifyIDs'[id] = spotifyIDs[id]
                                /\ ratings'[id] = ratings[id]
          /\ \A i, j \in tracks' : spotifyIDs'[i] = spotifyIDs'[j] => i = j
          /\ DOMAIN ratings' = tracks'
          /\ duels' = duels
          /\ reply'.err = "nil" =>
                SaveTracksFrom(DbAfter, reply'.batch, 1, 0, 0) = DbAfter]_vars

\* An import that returned no error created a track from a batch that also
\* named a stored track with a duel behind it.
C27_Witness ==
    /\ reply.op = "saveTracks"
    /\ reply.err = "nil"
    /\ tracks /= reply.existing
    /\ \E id \in reply.existing :
          /\ \E k \in 1..Len(reply.batch) : reply.batch[k] = spotifyIDs[id]
          /\ ratings[id].wins + ratings[id].losses + ratings[id].draws > 0

(***************************************************************************)
(* The counters of the ratings table against each other and against the    *)
(* log of duels, between ProcessDuel calls.                                *)
(***************************************************************************)

\* The sum of one counter ("wins", "losses", "draws") over the rows of ids.
RECURSIVE TotalCounter(_, _)
TotalCounter(ids, counter) ==
    IF ids = {}
    THEN 0
    ELSE LET id == CHOOSE i \in ids : TRUE
         IN  ratings[id][counter] + TotalCounter(ids \ {id}, counter)

\* C28: whenever no ProcessDuel call is running, the wins of all tracks sum
\* to the losses of all tracks and the draws of all tracks sum to an even
\* number.
C28_WinsBalanceLosses ==
    pc = "idle" =>
        /\ TotalCounter(DOMAIN ratings, "wins") = TotalCounter(DOMAIN ratings, "losses")
        /\ TotalCounter(DOMAIN ratings, "draws") % 2 = 0

\* The records of the log that name id as the winner.
RecordsWonBy(id) == {i \in 1..Len(duels) : duels[i].winner_track_id = id}

\* The records of the log in which id takes part and the winner is another
\* track.
RecordsLostBy(id) ==
    {i \in 1..Len(duels) :
        /\ id \in {duels[i].left_track_id, duels[i].right_track_id}
        /\ duels[i].winner_track_id \in
              {duels[i].left_track_id, duels[i].right_track_id} \ {id}}

\* C29: whenever no ProcessDuel call is running, every track has as many wins
\* as the log has records naming it as the winner and as many losses as the
\* log has records in which it takes part and the other track is the winner.
C29_CountersMatchLog ==
    pc = "idle" =>
        \A id \in DOMAIN ratings :
            /\ ratings[id].wins = Cardinality(RecordsWonBy(id))
            /\ ratings[id].losses = Cardinality(RecordsLostBy(id))

(***************************************************************************)
(* findBestOpponent against one pass over the candidates.                  *)
(***************************************************************************)

\* The positions of the candidates that are not the target.
OtherCandidates(target, candidates) ==
    {i \in 1..Len(candidates) : candidates[i].track_id /= target.track_id}

\* One pass: the first candidate in list order, other than target, whose
\* rating is nearest to the target's; ZeroRating (nil) when there is none.
SinglePassOpponent(target, candidates) ==
    LET others == OtherCandidates(target, candidates)
        diff(i) == abs(candidates[i].elo - target.elo)
    IN  IF others = {}
        THEN ZeroRating
        ELSE candidates[CHOOSE i \in others :
                           \A j \in others : diff(i) < diff(j) \/ (diff(i) = diff(j) /\ i <= j)]

\* C30: findBestOpponent returns what the single pass returns, and nil exactly
\* when no candidate is another track than the target.
C30_TwoPassesAreOnePass ==
    reply.op = "findBestOpponent" =>
        /\ reply.value = SinglePassOpponent(reply.target, reply.candidates)
        /\ reply.value = ZeroRating <=>
              OtherCandidates(reply.target, reply.candidates) = {}

\* The second loop decided: no candidate lies within EloRange of the target,
\* two are equally near, and the first of them in list order was returned.
C30_Witness ==
    /\ reply.op = "findBestOpponent"
    /\ Len(reply.candidates) = 3
    /\ \E i, j \in OtherCandidates(reply.target, reply.candidates) :
          /\ i < j
          /\ reply.value = reply.candidates[i]
          /\ abs(reply.candidates[i].elo - reply.target.elo) > EloRange
          /\ abs(reply.candidates[i].elo - reply.target.elo)
                = abs(reply.candidates[j].elo - reply.target.elo)

(***************************************************************************)
(* CalculateNewElo as a function of its four arguments.                    *)
(***************************************************************************)

\* The exact sum oldElo + kFactor*(actualScore-expectedScore) of the last
\* direct call, in units of 1/384, and how far the returned rating is from it.
ExactNewElo == Unit * reply.oldElo + reply.kFactor * (reply.actualScore - reply.expectedScore)
RoundingError == Unit * reply.value - ExactNewElo
IsNearest == Magnitude(RoundingError) <= Half
IsTie == Magnitude(RoundingError) = Half

\* C11 (as claimed): CalculateNewElo returns the integer nearest to
\* oldElo + kFactor*(actualScore-expectedScore), and an exact half goes to
\* the even neighbour.
C11_TiesToEven ==
    reply.op = "CalculateNewElo" => IsNearest /\ (IsTie => reply.value % 2 = 0)

\* C11 (amended): CalculateNewElo returns the integer nearest to
\* oldElo + kFactor*(actualScore-expectedScore), and an exact half goes to
\* the neighbour farther from zero, for positive and negative deltas alike.
C11_TiesAwayFromZero ==
    reply.op = "CalculateNewElo" =>
        IsNearest /\ (IsTie => Unit * Magnitude(reply.value) > Magnitude(ExactNewElo))

\* A call whose exact sum is 1200.5: the rating returned is 1201.
C11_Witness ==
    /\ reply.op = "CalculateNewElo"
    /\ IsTie
    /\ reply.actualScore > reply.expectedScore
    /\ reply.value % 2 = 1

====
